---- MODULE Spec2Model ----
(***************************************************************************)
(* Model of the bastion provisioning code (package aws): the security group *)
(* rule reconciler (security_group_rule.go) and the network ACL rule       *)
(* reconciler (nacl_rule.go), run as whole calls against a cloud backend    *)
(* that records the rules it is asked to authorize or create, and as two    *)
(* concurrent calls on one ACL; and the instance lifecycle (instance.go):   *)
(* the AMI resolver, CreateInstance with its two waits, DeleteInstance.      *)
(*                                                                         *)
(* A Go pointer is a sequence of length at most one: <<>> is nil and <<v>>  *)
(* points to v.  Dereferencing nil is the fatal outcome err = "panic".      *)
(***************************************************************************)
EXTENDS Integers, Sequences, FiniteSets, TLC

\* Bounds of the model.
MaxPerms == 2
MaxEntries == 3

Nil == <<>>
Ptr(v) == <<v>>
Deref(p) == p[1]

\* The inputs the calls are given.
Cidrs == {"10.0.0.0/24", "10.0.1.0/24"}
PortPairs == {<<22, 22>>, <<20, 25>>}
GroupID == "sg-123456"
AclID == "nacl-123456"

\* How the backend answers one call: a describe-by-ID call returns the one
\* resource, an API error, no resource, or more than one resource; a mutation
\* call is accepted or fails with an API error.
DescribeModes == {"ok", "error", "none", "many"}
CallModes == {"ok", "error"}

VARIABLES sg, acl, call, inst, race, held

vars == <<sg, acl, call, inst, race, held>>

\* The record of a call: its name, its input, what it returned (out: the rule
\* object, ret: the scalar result), its error ("nil", "api", "notfound", or
\* "panic" for the fatal outcome), the requests it sent to the cloud API, how
\* the backend answered them (modes: one per request the call may send, in
\* order), and whether the call repeats the arguments of the successful Create
\* right before it.
NoCall == [name |-> "none", in |-> Nil, out |-> Nil, ret |-> 0, err |-> "nil",
           reqs |-> <<>>, modes |-> <<>>, again |-> FALSE, before |-> Nil]

\* What the backend holds; a call's record keeps it as it was before the call.
Backend == [sg |-> sg, acl |-> acl]

\* inst is the run of CreateInstance and DeleteInstance, race the two
\* concurrent runs of CreateNetworkACLRule; both are idle in the specifications
\* of single calls.  held is the set of rule objects a caller keeps from its
\* Create calls; it is followed in SpecHeld alone.
NoRun == [pc |-> "idle"]
NoRace == <<>>

(***************************************************************************)
(* Security group backend: ec2.SecurityGroup with its two permission lists. *)
(***************************************************************************)
IpPermission(from, to, proto, ranges) ==
    [FromPort |-> from, ToPort |-> to, IpProtocol |-> proto, IpRanges |-> ranges]

\* Non-empty lists of distinct CIDRs.
IpRangeLists ==
    {<<c>> : c \in Cidrs} \cup {<<"10.0.0.0/24", "10.0.1.0/24">>}

\* The permissions a group may hold: TCP permissions with a port range, and
\* all-protocol permissions ("-1"), which carry no ports.
IpPermissions ==
    {IpPermission(Ptr(p[1]), Ptr(p[2]), "tcp", r) : p \in PortPairs, r \in IpRangeLists}
    \cup {IpPermission(Nil, Nil, "-1", r) : r \in IpRangeLists}

PermKey(v) == <<v.IpProtocol, v.FromPort, v.ToPort>>

\* The backend keeps one permission per protocol and port range.
DistinctKeys(rules) ==
    \A i, j \in 1..Len(rules) : PermKey(rules[i]) = PermKey(rules[j]) => i = j

PermLists(n) ==
    {rules \in UNION {[1..k -> IpPermissions] : k \in 0..n} : DistinctKeys(rules)}

SecurityGroups ==
    {[IpPermissions |-> a, IpPermissionsEgress |-> b] :
        <<a, b>> \in {p \in PermLists(MaxPerms) \X PermLists(MaxPerms) :
                        Len(p[1]) + Len(p[2]) <= MaxPerms}}

NumPerms(g) == Len(g.IpPermissions) + Len(g.IpPermissionsEgress)

DescribeSecurityGroups(g, mode) ==
    CASE mode = "ok" -> [err |-> "nil", SecurityGroups |-> <<g>>]
      [] mode = "error" -> [err |-> "api", SecurityGroups |-> <<>>]
      [] mode = "none" -> [err |-> "nil", SecurityGroups |-> <<>>]
      [] mode = "many" -> [err |-> "nil", SecurityGroups |-> <<g, g>>]

RECURSIVE KeyIndex(_, _, _)
KeyIndex(rules, key, i) ==
    IF i > Len(rules) THEN 0
    ELSE IF PermKey(rules[i]) = key THEN i
    ELSE KeyIndex(rules, key, i + 1)

InRanges(ranges, cidr) == \E j \in 1..Len(ranges) : ranges[j] = cidr

RemoveAt(s, i) == [k \in 1..(Len(s) - 1) |-> IF k < i THEN s[k] ELSE s[k + 1]]

RemoveCidr(ranges, cidr) == SelectSeq(ranges, LAMBDA c : c # cidr)

\* authorize: the CIDR joins the permission of its protocol and ports, or a
\* new permission is appended; a duplicate rule or a full group is refused.
AuthorizeRules(rules, req, room, mode) ==
    LET key == <<req.IpProtocol, Ptr(req.FromPort), Ptr(req.ToPort)>>
        i == KeyIndex(rules, key, 1)
    IN IF mode = "error" THEN [err |-> "api", rules |-> rules]
       ELSE IF i # 0 /\ InRanges(rules[i].IpRanges, req.CidrIp)
            THEN [err |-> "api", rules |-> rules]
       ELSE IF i # 0
            THEN [err |-> "nil",
                  rules |-> [rules EXCEPT ![i].IpRanges = Append(@, req.CidrIp)]]
       ELSE IF ~room THEN [err |-> "api", rules |-> rules]
       ELSE [err |-> "nil",
             rules |-> Append(rules, IpPermission(Ptr(req.FromPort), Ptr(req.ToPort),
                                                   req.IpProtocol, <<req.CidrIp>>))]

\* revoke: the CIDR leaves the permission of its protocol and ports; a
\* permission left without ranges is dropped.
RevokeRules(rules, req, mode) ==
    LET key == <<req.IpProtocol, Ptr(req.FromPort), Ptr(req.ToPort)>>
        i == KeyIndex(rules, key, 1)
    IN IF mode = "error" THEN [err |-> "api", rules |-> rules]
       ELSE IF i = 0 \/ ~InRanges(rules[i].IpRanges, req.CidrIp)
            THEN [err |-> "nil", rules |-> rules]
       ELSE IF Len(rules[i].IpRanges) = 1
            THEN [err |-> "nil", rules |-> RemoveAt(rules, i)]
       ELSE [err |-> "nil",
             rules |-> [rules EXCEPT ![i].IpRanges = RemoveCidr(@, req.CidrIp)]]

AuthorizeSecurityGroupIngress(g, req, mode) ==
    LET r == AuthorizeRules(g.IpPermissions, req, NumPerms(g) < MaxPerms, mode)
    IN [err |-> r.err, sg |-> [g EXCEPT !.IpPermissions = r.rules]]

AuthorizeSecurityGroupEgress(g, req, mode) ==
    LET r == AuthorizeRules(g.IpPermissionsEgress, req, NumPerms(g) < MaxPerms, mode)
    IN [err |-> r.err, sg |-> [g EXCEPT !.IpPermissionsEgress = r.rules]]

RevokeSecurityGroupIngress(g, req, mode) ==
    LET r == RevokeRules(g.IpPermissions, req, mode)
    IN [err |-> r.err, sg |-> [g EXCEPT !.IpPermissions = r.rules]]

RevokeSecurityGroupEgress(g, req, mode) ==
    LET r == RevokeRules(g.IpPermissionsEgress, req, mode)
    IN [err |-> r.err, sg |-> [g EXCEPT !.IpPermissionsEgress = r.rules]]

(***************************************************************************)
(* security_group_rule.go                                                   *)
(***************************************************************************)
SecurityGroupRule(cidr, created, egress, group, start, end, pre) ==
    [CidrBlock |-> cidr, Created |-> created, Egress |-> egress, GroupID |-> group,
     StartPort |-> start, EndPort |-> end, PreExisting |-> pre]

SecurityGroupRules ==
    {SecurityGroupRule(c, cr, e, GroupID, p[1], p[2], pre) :
        c \in Cidrs, cr \in BOOLEAN, e \in BOOLEAN, p \in PortPairs, pre \in BOOLEAN}

SGArgs(group, cidr, start, end, egress) ==
    [group |-> group, cidr |-> cidr, start |-> start, end |-> end, egress |-> egress]

\* Mutant: a rule whose port range lies within the requested one is taken for
\* the requested rule.
SGRangeMatchesOverlap(v, x, cidr, start, end) ==
    IF x # cidr THEN "no"
    ELSE IF v.FromPort = Nil THEN "panic"
    ELSE IF Deref(v.FromPort) < start THEN "no"
    ELSE IF v.ToPort = Nil THEN "panic"
    ELSE IF Deref(v.ToPort) <= end THEN "yes"
    ELSE "no"

\* The condition of line 69, evaluated left to right: "yes", "no", or "panic"
\* when a port pointer that has to be read is nil.
SGRangeMatches(v, x, cidr, start, end) ==
    IF x # cidr THEN "no"
    ELSE IF v.FromPort = Nil THEN "panic"
    ELSE IF Deref(v.FromPort) # start THEN "no"
    ELSE IF v.ToPort = Nil THEN "panic"
    ELSE IF Deref(v.ToPort) = end THEN "yes"
    ELSE "no"

RECURSIVE SGScanRanges(_, _, _, _, _)
SGScanRanges(v, j, cidr, start, end) ==
    IF j > Len(v.IpRanges) THEN "no"
    ELSE LET m == SGRangeMatches(v, v.IpRanges[j], cidr, start, end)
         IN IF m = "no" THEN SGScanRanges(v, j + 1, cidr, start, end) ELSE m

RECURSIVE SGScanRules(_, _, _, _, _)
SGScanRules(rules, i, cidr, start, end) ==
    IF i > Len(rules) THEN "no"
    ELSE LET m == SGScanRanges(rules[i], 1, cidr, start, end)
         IN IF m = "no" THEN SGScanRules(rules, i + 1, cidr, start, end) ELSE m

\* Mutant: the two permission lists taken for each other.
SGDirectionRulesSwapped(group, egress) ==
    IF egress = TRUE THEN group.IpPermissions ELSE group.IpPermissionsEgress

SGDirectionRules(group, egress) ==
    IF egress = TRUE THEN group.IpPermissionsEgress ELSE group.IpPermissions

SGDescribeReq(group) == [api |-> "DescribeSecurityGroups", GroupIds |-> <<group>>]

\* Mutant: of several groups returned, the first is searched.
FindPreExistingSecurityGroupRuleFirst(g, group, cidr, start, end, egress, dmode) ==
    LET resp == DescribeSecurityGroups(g, dmode)
        reqs == <<SGDescribeReq(group)>>
    IN IF resp.err # "nil" THEN [ret |-> FALSE, err |-> resp.err, reqs |-> reqs]
       ELSE IF Len(resp.SecurityGroups) < 1
            THEN [ret |-> FALSE, err |-> "notfound", reqs |-> reqs]
       ELSE LET m == SGScanRules(SGDirectionRules(resp.SecurityGroups[1], egress), 1,
                                 cidr, start, end)
            IN CASE m = "yes" -> [ret |-> TRUE, err |-> "nil", reqs |-> reqs]
                 [] m = "no" -> [ret |-> FALSE, err |-> "nil", reqs |-> reqs]
                 [] m = "panic" -> [ret |-> FALSE, err |-> "panic", reqs |-> reqs]

FindPreExistingSecurityGroupRule(g, group, cidr, start, end, egress, dmode) ==
    LET resp == DescribeSecurityGroups(g, dmode)
        reqs == <<SGDescribeReq(group)>>
    IN IF resp.err # "nil" THEN [ret |-> FALSE, err |-> resp.err, reqs |-> reqs]
       ELSE IF Len(resp.SecurityGroups) < 1
            THEN [ret |-> FALSE, err |-> "notfound", reqs |-> reqs]
       ELSE IF Len(resp.SecurityGroups) > 1
            THEN [ret |-> FALSE, err |-> "panic", reqs |-> reqs]
       ELSE LET m == SGScanRules(SGDirectionRules(resp.SecurityGroups[1], egress), 1,
                                 cidr, start, end)
            IN CASE m = "yes" -> [ret |-> TRUE, err |-> "nil", reqs |-> reqs]
                 [] m = "no" -> [ret |-> FALSE, err |-> "nil", reqs |-> reqs]
                 [] m = "panic" -> [ret |-> FALSE, err |-> "panic", reqs |-> reqs]

SGAuthorizeReq(api, group, cidr, start, end) ==
    [api |-> api, CidrIp |-> cidr, FromPort |-> start, IpProtocol |-> "tcp",
     ToPort |-> end, GroupId |-> group]

\* Mutant: a group that is not found counts as holding no rule.
CreateSecurityGroupRuleNotFound(g, group, cidr, start, end, egress, dmode, mode) ==
    LET rule == SecurityGroupRule(cidr, FALSE, egress, group, start, end, FALSE)
        f == FindPreExistingSecurityGroupRule(g, group, cidr, start, end, egress, dmode)
        api == IF egress = TRUE THEN "AuthorizeSecurityGroupEgress"
               ELSE "AuthorizeSecurityGroupIngress"
        req == SGAuthorizeReq(api, group, cidr, start, end)
        a == IF egress = TRUE THEN AuthorizeSecurityGroupEgress(g, req, mode)
             ELSE AuthorizeSecurityGroupIngress(g, req, mode)
    IN IF f.err \notin {"nil", "notfound"}
       THEN [out |-> rule, err |-> f.err, reqs |-> f.reqs, sg |-> g]
       ELSE IF f.ret = TRUE
            THEN [out |-> [rule EXCEPT !.PreExisting = TRUE, !.Created = TRUE],
                  err |-> "nil", reqs |-> f.reqs, sg |-> g]
       ELSE IF a.err # "nil"
            THEN [out |-> rule, err |-> a.err, reqs |-> Append(f.reqs, req), sg |-> a.sg]
       ELSE [out |-> [rule EXCEPT !.Created = TRUE], err |-> "nil",
             reqs |-> Append(f.reqs, req), sg |-> a.sg]

CreateSecurityGroupRule(g, group, cidr, start, end, egress, dmode, mode) ==
    LET rule == SecurityGroupRule(cidr, FALSE, egress, group, start, end, FALSE)
        f == FindPreExistingSecurityGroupRule(g, group, cidr, start, end, egress, dmode)
        api == IF egress = TRUE THEN "AuthorizeSecurityGroupEgress"
               ELSE "AuthorizeSecurityGroupIngress"
        req == SGAuthorizeReq(api, group, cidr, start, end)
        a == IF egress = TRUE THEN AuthorizeSecurityGroupEgress(g, req, mode)
             ELSE AuthorizeSecurityGroupIngress(g, req, mode)
    IN IF f.err # "nil" THEN [out |-> rule, err |-> f.err, reqs |-> f.reqs, sg |-> g]
       ELSE IF f.ret = TRUE
            THEN [out |-> [rule EXCEPT !.PreExisting = TRUE, !.Created = TRUE],
                  err |-> "nil", reqs |-> f.reqs, sg |-> g]
       ELSE IF a.err # "nil"
            THEN [out |-> rule, err |-> a.err, reqs |-> Append(f.reqs, req), sg |-> a.sg]
       ELSE [out |-> [rule EXCEPT !.Created = TRUE], err |-> "nil",
             reqs |-> Append(f.reqs, req), sg |-> a.sg]

SGRevokeReq(api, rule) ==
    [api |-> api, CidrIp |-> rule.CidrBlock, FromPort |-> rule.StartPort,
     IpProtocol |-> "tcp", ToPort |-> rule.EndPort, GroupId |-> rule.GroupID]

\* Mutant: the revoke call of the other direction is sent.
runSecurityGroupRuleDeleteSwapped(g, rule, mode) ==
    LET api == IF rule.Egress = TRUE THEN "RevokeSecurityGroupIngress"
               ELSE "RevokeSecurityGroupEgress"
        req == SGRevokeReq(api, rule)
        r == IF rule.Egress = TRUE THEN RevokeSecurityGroupIngress(g, req, mode)
             ELSE RevokeSecurityGroupEgress(g, req, mode)
    IN IF rule.PreExisting = TRUE THEN [err |-> "nil", reqs |-> <<>>, sg |-> g]
       ELSE [err |-> r.err, reqs |-> <<req>>, sg |-> r.sg]

\* Mutant: the pre-existing check of line 140 left out.
runSecurityGroupRuleDeleteAlways(g, rule, mode) ==
    LET api == IF rule.Egress = TRUE THEN "RevokeSecurityGroupEgress"
               ELSE "RevokeSecurityGroupIngress"
        req == SGRevokeReq(api, rule)
        r == IF rule.Egress = TRUE THEN RevokeSecurityGroupEgress(g, req, mode)
             ELSE RevokeSecurityGroupIngress(g, req, mode)
    IN [err |-> r.err, reqs |-> <<req>>, sg |-> r.sg]

\* Created is set on the function's own copy of the rule (line 170), which the
\* caller never sees: the function returns the error alone.
runSecurityGroupRuleDelete(g, rule, mode) ==
    LET api == IF rule.Egress = TRUE THEN "RevokeSecurityGroupEgress"
               ELSE "RevokeSecurityGroupIngress"
        req == SGRevokeReq(api, rule)
        r == IF rule.Egress = TRUE THEN RevokeSecurityGroupEgress(g, req, mode)
             ELSE RevokeSecurityGroupIngress(g, req, mode)
    IN IF rule.PreExisting = TRUE THEN [err |-> "nil", reqs |-> <<>>, sg |-> g]
       ELSE [err |-> r.err, reqs |-> <<req>>, sg |-> r.sg]

DeleteSecurityGroupRule(g, rule, mode) ==
    LET d == runSecurityGroupRuleDelete(g, rule, mode)
    IN IF d.err # "nil" THEN [out |-> rule, err |-> d.err, reqs |-> d.reqs, sg |-> d.sg]
       ELSE [out |-> [rule EXCEPT !.Created = FALSE], err |-> "nil",
             reqs |-> d.reqs, sg |-> d.sg]


(***************************************************************************)
(* Network ACL backend: ec2.NetworkAcl with its list of entries.  The       *)
(* backend lists the entries by ascending rule number, ingress before       *)
(* egress, and holds one entry per rule number and direction.               *)
(***************************************************************************)
RuleNumbers == {0, 1, 100}

NetworkAclEntry(cidr, egress, ports, proto, action, num) ==
    [CidrBlock |-> cidr, Egress |-> egress, PortRange |-> ports, Protocol |-> proto,
     RuleAction |-> action, RuleNumber |-> num]

PortRange(from, to) == [From |-> from, To |-> to]

\* The entries an ACL may start with: a TCP allow entry for port 22, or an
\* all-protocol entry, which carries no port range.
NetworkAclEntries ==
    {NetworkAclEntry("10.0.0.0/24", e, Ptr(PortRange(22, 22)), "TCP", "allow", n) :
        e \in BOOLEAN, n \in RuleNumbers}
    \cup {NetworkAclEntry("10.0.0.0/24", e, Nil, "-1", "allow", n) :
        e \in BOOLEAN, n \in RuleNumbers}

EntryRank(v) == 2 * v.RuleNumber + (IF v.Egress THEN 1 ELSE 0)

DistinctSlots(S) == \A v, w \in S : EntryRank(v) = EntryRank(w) => v = w

RECURSIVE EntryList(_)
EntryList(S) ==
    IF S = {} THEN <<>>
    ELSE LET v == CHOOSE x \in S : \A y \in S : EntryRank(x) <= EntryRank(y)
         IN <<v>> \o EntryList(S \ {v})

NetworkAcls ==
    {EntryList(S) : S \in {T \in SUBSET NetworkAclEntries :
                             Cardinality(T) <= MaxEntries /\ DistinctSlots(T)}}

DescribeNetworkAcls(a, mode) ==
    CASE mode = "ok" -> [err |-> "nil", NetworkAcls |-> <<[Entries |-> a]>>]
      [] mode = "error" -> [err |-> "api", NetworkAcls |-> <<>>]
      [] mode = "none" -> [err |-> "nil", NetworkAcls |-> <<>>]
      [] mode = "many" -> [err |-> "nil", NetworkAcls |-> <<[Entries |-> a], [Entries |-> a]>>]

SlotTaken(a, num, egress) ==
    \E i \in 1..Len(a) : a[i].RuleNumber = num /\ a[i].Egress = egress

\* create-entry: refused for a rule number the direction already holds and
\* for a full ACL.
CreateNetworkAclEntry(a, req, mode) ==
    LET v == NetworkAclEntry(req.CidrBlock, req.Egress, Ptr(req.PortRange),
                             req.Protocol, req.RuleAction, req.RuleNumber)
        before == SelectSeq(a, LAMBDA w : EntryRank(w) < EntryRank(v))
        after == SelectSeq(a, LAMBDA w : EntryRank(w) > EntryRank(v))
    IN IF mode = "error" \/ SlotTaken(a, req.RuleNumber, req.Egress) \/ Len(a) >= MaxEntries
       THEN [err |-> "api", acl |-> a]
       ELSE [err |-> "nil", acl |-> before \o <<v>> \o after]

\* delete-entry: removes the entry of the rule number and direction; there
\* being none is an error.
DeleteNetworkAclEntry(a, req, mode) ==
    IF mode = "error" \/ ~SlotTaken(a, req.RuleNumber, req.Egress)
    THEN [err |-> "api", acl |-> a]
    ELSE [err |-> "nil",
          acl |-> SelectSeq(a, LAMBDA w : ~(w.RuleNumber = req.RuleNumber
                                            /\ w.Egress = req.Egress))]

(***************************************************************************)
(* nacl_rule.go                                                             *)
(***************************************************************************)
NetworkACLRule(cidr, created, egress, id, start, end, pre, num) ==
    [CidrBlock |-> cidr, Created |-> created, Egress |-> egress, NetworkAclID |-> id,
     StartPort |-> start, EndPort |-> end, PreExisting |-> pre, RuleNumber |-> num]

NetworkACLRules ==
    {NetworkACLRule(c, cr, e, AclID, p[1], p[2], pre, n) :
        c \in Cidrs, cr \in BOOLEAN, e \in BOOLEAN, p \in PortPairs, pre \in BOOLEAN,
        n \in RuleNumbers}

ACLArgs(id, cidr, start, end, egress) ==
    [acl |-> id, cidr |-> cidr, start |-> start, end |-> end, egress |-> egress]

ACLDescribeReq(id) == [api |-> "DescribeNetworkAcls", NetworkAclIds |-> <<id>>]

\* sort.Ints: insertion into an ascending list.
RECURSIVE InsertInt(_, _)
InsertInt(s, n) ==
    IF s = <<>> THEN <<n>>
    ELSE IF n <= Head(s) THEN <<n>> \o s
    ELSE <<Head(s)>> \o InsertInt(Tail(s), n)

RECURSIVE SortInts(_)
SortInts(s) == IF s = <<>> THEN <<>> ELSE InsertInt(SortInts(Tail(s)), Head(s))

\* Lines 77-83: n counts up while the sorted numbers equal it.
RECURSIVE VacantScan(_, _, _)
VacantScan(nums, i, n) ==
    IF i > Len(nums) THEN n
    ELSE IF nums[i] # n THEN n
    ELSE VacantScan(nums, i + 1, n + 1)

FindVacantNetworkACLRule(a, id, dmode) ==
    LET resp == DescribeNetworkAcls(a, dmode)
        reqs == <<ACLDescribeReq(id)>>
    IN IF resp.err # "nil" THEN [ret |-> 0, err |-> resp.err, reqs |-> reqs]
       ELSE IF Len(resp.NetworkAcls) < 1 THEN [ret |-> 0, err |-> "notfound", reqs |-> reqs]
       ELSE IF Len(resp.NetworkAcls) > 1 THEN [ret |-> 0, err |-> "panic", reqs |-> reqs]
       ELSE LET entries == resp.NetworkAcls[1].Entries
                nums == SortInts([i \in 1..Len(entries) |-> entries[i].RuleNumber])
            IN [ret |-> VacantScan(nums, 1, 0), err |-> "nil", reqs |-> reqs]

\* Mutant: the direction of the entry is not compared.
ACLEntryMatchesAnyDirection(v, cidr, start, end, egress) ==
    IF v.CidrBlock # cidr THEN "no"
    ELSE IF v.PortRange = Nil THEN "panic"
    ELSE IF Deref(v.PortRange).From # start THEN "no"
    ELSE IF Deref(v.PortRange).To # end THEN "no"
    ELSE "yes"

\* The condition of line 113, evaluated left to right: "yes", "no", or
\* "panic" when the entry has no port range to read.
ACLEntryMatches(v, cidr, start, end, egress) ==
    IF v.CidrBlock # cidr THEN "no"
    ELSE IF v.PortRange = Nil THEN "panic"
    ELSE IF Deref(v.PortRange).From # start THEN "no"
    ELSE IF Deref(v.PortRange).To # end THEN "no"
    ELSE IF v.Egress = egress THEN "yes"
    ELSE "no"

\* Lines 112-118: the rule number of the first matching entry, or -1.
RECURSIVE ACLScanEntries(_, _, _, _, _, _)
ACLScanEntries(entries, i, cidr, start, end, egress) ==
    IF i > Len(entries) THEN [ret |-> -1, err |-> "nil"]
    ELSE LET m == ACLEntryMatches(entries[i], cidr, start, end, egress)
         IN CASE m = "yes" -> [ret |-> entries[i].RuleNumber, err |-> "nil"]
              [] m = "panic" -> [ret |-> 0, err |-> "panic"]
              [] m = "no" -> ACLScanEntries(entries, i + 1, cidr, start, end, egress)

FindPreExistingNetworkACLRule(a, id, cidr, start, end, egress, dmode) ==
    LET resp == DescribeNetworkAcls(a, dmode)
        reqs == <<ACLDescribeReq(id)>>
    IN IF resp.err # "nil" THEN [ret |-> 0, err |-> resp.err, reqs |-> reqs]
       ELSE IF Len(resp.NetworkAcls) < 1 THEN [ret |-> 0, err |-> "notfound", reqs |-> reqs]
       ELSE IF Len(resp.NetworkAcls) > 1 THEN [ret |-> 0, err |-> "panic", reqs |-> reqs]
       ELSE LET m == ACLScanEntries(resp.NetworkAcls[1].Entries, 1, cidr, start, end, egress)
            IN [ret |-> m.ret, err |-> m.err, reqs |-> reqs]

ACLCreateReq(id, cidr, start, end, egress, n) ==
    [api |-> "CreateNetworkAclEntry", CidrBlock |-> cidr, Egress |-> egress,
     NetworkAclId |-> id, PortRange |-> PortRange(start, end), Protocol |-> "TCP",
     RuleAction |-> "allow", RuleNumber |-> n]

\* Mutant: the slot is allocated one above the vacant rule number.
CreateNetworkACLRuleNextSlot(a, id, cidr, start, end, egress, dmode, vmode, mode) ==
    LET rule == NetworkACLRule(cidr, FALSE, egress, id, start, end, FALSE, 0)
        f == FindPreExistingNetworkACLRule(a, id, cidr, start, end, egress, dmode)
        v == FindVacantNetworkACLRule(a, id, vmode)
        req == ACLCreateReq(id, cidr, start, end, egress, v.ret + 1)
        c == CreateNetworkAclEntry(a, req, mode)
    IN IF f.err # "nil" THEN [out |-> rule, err |-> f.err, reqs |-> f.reqs, acl |-> a]
       ELSE IF f.ret # -1
            THEN [out |-> [rule EXCEPT !.PreExisting = TRUE, !.RuleNumber = f.ret,
                                       !.Created = TRUE],
                  err |-> "nil", reqs |-> f.reqs, acl |-> a]
       ELSE IF v.err # "nil"
            THEN [out |-> rule, err |-> v.err, reqs |-> f.reqs \o v.reqs, acl |-> a]
       ELSE IF c.err # "nil"
            THEN [out |-> rule, err |-> c.err, reqs |-> f.reqs \o v.reqs \o <<req>>,
                  acl |-> c.acl]
       ELSE [out |-> [rule EXCEPT !.RuleNumber = v.ret + 1, !.Created = TRUE],
             err |-> "nil", reqs |-> f.reqs \o v.reqs \o <<req>>, acl |-> c.acl]

\* Mutant: the rule number of the entry found is not copied to the rule.
CreateNetworkACLRuleNoNumber(a, id, cidr, start, end, egress, dmode, vmode, mode) ==
    LET rule == NetworkACLRule(cidr, FALSE, egress, id, start, end, FALSE, 0)
        f == FindPreExistingNetworkACLRule(a, id, cidr, start, end, egress, dmode)
        v == FindVacantNetworkACLRule(a, id, vmode)
        req == ACLCreateReq(id, cidr, start, end, egress, v.ret)
        c == CreateNetworkAclEntry(a, req, mode)
    IN IF f.err # "nil" THEN [out |-> rule, err |-> f.err, reqs |-> f.reqs, acl |-> a]
       ELSE IF f.ret # -1
            THEN [out |-> [rule EXCEPT !.PreExisting = TRUE, !.Created = TRUE],
                  err |-> "nil", reqs |-> f.reqs, acl |-> a]
       ELSE IF v.err # "nil"
            THEN [out |-> rule, err |-> v.err, reqs |-> f.reqs \o v.reqs, acl |-> a]
       ELSE IF c.err # "nil"
            THEN [out |-> rule, err |-> c.err, reqs |-> f.reqs \o v.reqs \o <<req>>,
                  acl |-> c.acl]
       ELSE [out |-> [rule EXCEPT !.RuleNumber = v.ret, !.Created = TRUE], err |-> "nil",
             reqs |-> f.reqs \o v.reqs \o <<req>>, acl |-> c.acl]

CreateNetworkACLRule(a, id, cidr, start, end, egress, dmode, vmode, mode) ==
    LET rule == NetworkACLRule(cidr, FALSE, egress, id, start, end, FALSE, 0)
        f == FindPreExistingNetworkACLRule(a, id, cidr, start, end, egress, dmode)
        v == FindVacantNetworkACLRule(a, id, vmode)
        req == ACLCreateReq(id, cidr, start, end, egress, v.ret)
        c == CreateNetworkAclEntry(a, req, mode)
    IN IF f.err # "nil" THEN [out |-> rule, err |-> f.err, reqs |-> f.reqs, acl |-> a]
       ELSE IF f.ret # -1
            THEN [out |-> [rule EXCEPT !.PreExisting = TRUE, !.RuleNumber = f.ret,
                                       !.Created = TRUE],
                  err |-> "nil", reqs |-> f.reqs, acl |-> a]
       ELSE IF v.err # "nil"
            THEN [out |-> rule, err |-> v.err, reqs |-> f.reqs \o v.reqs, acl |-> a]
       ELSE IF c.err # "nil"
            THEN [out |-> rule, err |-> c.err, reqs |-> f.reqs \o v.reqs \o <<req>>,
                  acl |-> c.acl]
       ELSE [out |-> [rule EXCEPT !.RuleNumber = v.ret, !.Created = TRUE], err |-> "nil",
             reqs |-> f.reqs \o v.reqs \o <<req>>, acl |-> c.acl]

\* Mutant: the request also carries the rule's CIDR.
ACLDeleteReqWithCidr(rule) ==
    [api |-> "DeleteNetworkAclEntry", CidrBlock |-> rule.CidrBlock, Egress |-> rule.Egress,
     NetworkAclId |-> rule.NetworkAclID, RuleNumber |-> rule.RuleNumber]

ACLDeleteReq(rule) ==
    [api |-> "DeleteNetworkAclEntry", Egress |-> rule.Egress,
     NetworkAclId |-> rule.NetworkAclID, RuleNumber |-> rule.RuleNumber]

\* Mutant: a rule that is not marked created is left alone.
runNetworkACLRuleDeleteIfCreated(a, rule, mode) ==
    LET req == ACLDeleteReq(rule)
        d == DeleteNetworkAclEntry(a, req, mode)
    IN IF rule.PreExisting = TRUE \/ rule.Created = FALSE
       THEN [err |-> "nil", reqs |-> <<>>, acl |-> a]
       ELSE [err |-> d.err, reqs |-> <<req>>, acl |-> d.acl]

\* Created is set on the function's own copy of the rule (line 198), which the
\* caller never sees: the function returns the error alone.
runNetworkACLRuleDelete(a, rule, mode) ==
    LET req == ACLDeleteReq(rule)
        d == DeleteNetworkAclEntry(a, req, mode)
    IN IF rule.PreExisting = TRUE THEN [err |-> "nil", reqs |-> <<>>, acl |-> a]
       ELSE [err |-> d.err, reqs |-> <<req>>, acl |-> d.acl]

\* Mutant: the rule is marked deleted without any request.
DeleteNetworkACLRuleUnsent(a, rule, mode) ==
    [out |-> [rule EXCEPT !.Created = FALSE], err |-> "nil", reqs |-> <<>>, acl |-> a]

DeleteNetworkACLRule(a, rule, mode) ==
    LET d == runNetworkACLRuleDelete(a, rule, mode)
    IN IF d.err # "nil" THEN [out |-> rule, err |-> d.err, reqs |-> d.reqs, acl |-> d.acl]
       ELSE [out |-> [rule EXCEPT !.Created = FALSE], err |-> "nil",
             reqs |-> d.reqs, acl |-> d.acl]

(***************************************************************************)
(* instance.go: the AMI resolver.                                           *)
(***************************************************************************)
\* Bound of the model: the number of images in a catalog.
MaxImages == 3

\* A time.Time: the instant day days, sec seconds and nsec nanoseconds after
\* 1970-01-01T00:00:00Z.
Time(day, sec, nsec) == [day |-> day, sec |-> sec, nsec |-> nsec]

\* The zero time.Time, 0001-01-01T00:00:00Z.
ZeroTime == Time(-719162, 0, 0)

\* The creation dates an image may carry: the dates of the test catalog, one
\* half a second after the latest of them, and one that is no RFC 3339 text.
CreationDates ==
    {"2014-06-22T09:19:44.000Z", "2016-06-22T09:19:44.000Z",
     "2016-06-22T09:19:44.500Z", "June 22nd"}

\* time.Parse(time.RFC3339, text): the instant the text denotes, or the zero
\* time and an error.
ParseRFC3339(text) ==
    CASE text = "2014-06-22T09:19:44.000Z" -> [t |-> Time(16243, 33584, 0), err |-> "nil"]
      [] text = "2016-06-22T09:19:44.000Z" -> [t |-> Time(16974, 33584, 0), err |-> "nil"]
      [] text = "2016-06-22T09:19:44.500Z" ->
             [t |-> Time(16974, 33584, 500000000), err |-> "nil"]
      [] OTHER -> [t |-> ZeroTime, err |-> "parse"]

\* Time.Unix(): the whole seconds since 1970, an int64 written as the pair
\* <<days, seconds of the day>>; the nanoseconds are dropped.
Unix(t) == <<t.day, t.sec>>

\* u < v on two such int64 values.
Int64Less(u, v) == u[1] < v[1] \/ (u[1] = v[1] /\ u[2] < v[2])

\* An ec2.Image: its ID and the pointer to its creation date.
Image(id, date) == [ImageId |-> id, CreationDate |-> date]

ImageIdAt(i) == "ami-" \o ToString(i)

\* The catalogs describe-images may return: up to MaxImages images, each with
\* any creation date or with none.
ImageLists ==
    UNION {{[i \in 1..n |-> Image(ImageIdAt(i), d[i])] :
               d \in [1..n -> {Ptr(c) : c \in CreationDates} \cup {Nil}]} :
           n \in 0..MaxImages}

\* Mutant: an image whose date does not parse sorts as the latest.
imageSortLessStrict(a, i, j) ==
    IF a[i].CreationDate = Nil \/ a[j].CreationDate = Nil THEN "panic"
    ELSE LET ip == ParseRFC3339(Deref(a[i].CreationDate))
             jp == ParseRFC3339(Deref(a[j].CreationDate))
         IN IF ip.err # "nil" THEN "no"
            ELSE IF jp.err # "nil" THEN "yes"
            ELSE IF Int64Less(Unix(ip.t), Unix(jp.t)) THEN "yes" ELSE "no"

\* imageSort.Less: "yes", "no", or "panic" when an image has no creation date
\* to read.  The parse errors are dropped.
imageSortLess(a, i, j) ==
    IF a[i].CreationDate = Nil \/ a[j].CreationDate = Nil THEN "panic"
    ELSE LET itime == ParseRFC3339(Deref(a[i].CreationDate)).t
             jtime == ParseRFC3339(Deref(a[j].CreationDate)).t
         IN IF Int64Less(Unix(itime), Unix(jtime)) THEN "yes" ELSE "no"

imageSortSwap(a, i, j) == [a EXCEPT ![i] = a[j], ![j] = a[i]]

\* sort.Sort on a slice of fewer than seven elements is an insertion sort:
\* element j moves down while it is less than the one below it.
RECURSIVE imageSortInsert(_, _)
imageSortInsert(a, j) ==
    IF j <= 1 THEN [a |-> a, err |-> "nil"]
    ELSE LET l == imageSortLess(a, j, j - 1)
         IN CASE l = "panic" -> [a |-> a, err |-> "panic"]
              [] l = "no" -> [a |-> a, err |-> "nil"]
              [] l = "yes" -> imageSortInsert(imageSortSwap(a, j, j - 1), j - 1)

RECURSIVE imageSortFrom(_, _)
imageSortFrom(a, i) ==
    IF i > Len(a) THEN [a |-> a, err |-> "nil"]
    ELSE LET r == imageSortInsert(a, i)
         IN IF r.err # "nil" THEN r ELSE imageSortFrom(r.a, i + 1)

\* The last image of the sorted slice; indexing the empty slice is fatal.
mostRecentAmi(images) ==
    LET sortedImages == imageSortFrom(images, 2)
    IN IF sortedImages.err # "nil" THEN [image |-> Nil, err |-> "panic"]
       ELSE IF Len(images) = 0 THEN [image |-> Nil, err |-> "panic"]
       ELSE [image |-> Ptr(sortedImages.a[Len(images)]), err |-> "nil"]

DescribeImagesReq == [api |-> "DescribeImages", Filters |-> "amiSearchParameters"]

\* describe-images: the catalog, or an API error.
DescribeImages(catalog, mode) ==
    IF mode = "error" THEN [Images |-> <<>>, err |-> "api"]
    ELSE [Images |-> catalog, err |-> "nil"]

\* Mutant: the catalog is not checked for being empty.
LocateImageUnchecked(catalog, mode) ==
    LET resp == DescribeImages(catalog, mode)
        reqs == <<DescribeImagesReq>>
        m == mostRecentAmi(resp.Images)
    IN IF resp.err # "nil" THEN [ret |-> "", err |-> resp.err, reqs |-> reqs]
       ELSE IF m.err # "nil" THEN [ret |-> "", err |-> m.err, reqs |-> reqs]
       ELSE [ret |-> Deref(m.image).ImageId, err |-> "nil", reqs |-> reqs]

LocateImage(catalog, mode) ==
    LET resp == DescribeImages(catalog, mode)
        reqs == <<DescribeImagesReq>>
        m == mostRecentAmi(resp.Images)
    IN IF resp.err # "nil" THEN [ret |-> "", err |-> resp.err, reqs |-> reqs]
       ELSE IF Len(resp.Images) < 1 THEN [ret |-> "", err |-> "notfound", reqs |-> reqs]
       ELSE IF m.err # "nil" THEN [ret |-> "", err |-> m.err, reqs |-> reqs]
       ELSE [ret |-> Deref(m.image).ImageId, err |-> "nil", reqs |-> reqs]

(***************************************************************************)
(* key_pair.go                                                              *)
(***************************************************************************)
KeyPair(created, fingerprint, name, pem) ==
    [Created |-> created, Fingerprint |-> fingerprint, KeyName |-> name,
     PrivateKeyPEM |-> pem]

\* A generated name is a string of characters, one per element.
keyPairNamePrefix == <<"b", "a", "s", "t", "i", "o", "n", "-">>

\* generateKeyPairName prepends the prefix of the security group names, which
\* the names CreateSecurityGroup generates start with as well.
securityGroupNamePrefix == <<"b", "a", "s", "t", "i", "o", "n", "-">>

HexDigits == <<"0", "1", "2", "3", "4", "5", "6", "7", "8", "9", "a", "b", "c", "d", "e", "f">>

\* fmt.Sprintf("%x", n) for n >= 0: the hexadecimal digits of n, the most
\* significant first, without leading zeros.
RECURSIVE SprintfHex(_)
SprintfHex(n) ==
    IF n < 16 THEN <<HexDigits[n + 1]>>
    ELSE Append(SprintfHex(n \div 16), HexDigits[(n % 16) + 1])

\* The values rand.Int() may return.
RandInts == {0, 9, 10, 255, 256, 48879}

\* Mutant: the random number is written in decimal digits.
generateKeyPairNameDecimal(random) ==
    LET RECURSIVE dec(_)
        dec(n) == IF n < 10 THEN <<HexDigits[n + 1]>>
                  ELSE Append(dec(n \div 10), HexDigits[(n % 10) + 1])
    IN securityGroupNamePrefix \o dec(random)

generateKeyPairName(random) == securityGroupNamePrefix \o SprintfHex(random)

CreateKeyPairReq(name) == [api |-> "CreateKeyPair", KeyName |-> name]

DeleteKeyPairReq(name) == [api |-> "DeleteKeyPair", KeyName |-> name]

\* create-key-pair: the fingerprint and the key material of the new key pair
\* of that name, or an API error.
CreateKeyPairOutput(name, mode) ==
    IF mode = "error"
    THEN [KeyFingerprint |-> "", KeyMaterial |-> "", KeyName |-> "", err |-> "api"]
    ELSE [KeyFingerprint |-> "Fingerprint", KeyMaterial |-> "PrivateKeyPEM",
          KeyName |-> name, err |-> "nil"]

\* delete-key-pair: accepted, or an API error.
DeleteKeyPairOutput(mode) == IF mode = "error" THEN [err |-> "api"] ELSE [err |-> "nil"]

CreateKeyPair(random, mode) ==
    LET name == generateKeyPairName(random)
        kp == KeyPair(FALSE, "", name, "")
        req == CreateKeyPairReq(name)
        resp == CreateKeyPairOutput(name, mode)
    IN IF resp.err # "nil" THEN [out |-> kp, err |-> resp.err, reqs |-> <<req>>]
       ELSE [out |-> [kp EXCEPT !.Fingerprint = resp.KeyFingerprint,
                                !.PrivateKeyPEM = resp.KeyMaterial,
                                !.Created = TRUE],
             err |-> "nil", reqs |-> <<req>>]

\* Mutant: the prefix is prepended to the name once more.
DeleteKeyPairPrefixed(kp, mode) ==
    LET req == DeleteKeyPairReq(securityGroupNamePrefix \o kp.KeyName)
        resp == DeleteKeyPairOutput(mode)
    IN IF resp.err # "nil" THEN [out |-> kp, err |-> resp.err, reqs |-> <<req>>]
       ELSE [out |-> [kp EXCEPT !.Created = FALSE], err |-> "nil", reqs |-> <<req>>]

DeleteKeyPair(kp, mode) ==
    LET req == DeleteKeyPairReq(kp.KeyName)
        resp == DeleteKeyPairOutput(mode)
    IN IF resp.err # "nil" THEN [out |-> kp, err |-> resp.err, reqs |-> <<req>>]
       ELSE [out |-> [kp EXCEPT !.Created = FALSE], err |-> "nil", reqs |-> <<req>>]

(***************************************************************************)
(* instance.go: the instance lifecycle.                                     *)
(***************************************************************************)
\* Bounds of the model: the polls answered "pending" before the backend's
\* final answer, and the dials refused before the dialer's final answer.
MaxPending == 2
MaxRefused == 2

\* The instance start timeout, in seconds.
startTimeout == 300
instanceType == "t2.nano"
sshUser == "ec2-user"

SubnetID == "subnet-1234567890abcdef0"
InstanceID == "i-1234567890abcdef0"
PublicIP == "54.0.0.1"
PrivateIP == "10.0.0.1"

\* The seconds one describe-instances call, or one SSH dial, may take.
CallSeconds == {100, 200}


\* The key pairs CreateInstance is given: ssh.ParsePrivateKey parses the first
\* and rejects the second.
KeyPairs ==
    {KeyPair(TRUE, "Fingerprint", "bastion-test", "PrivateKeyPEM"),
     KeyPair(TRUE, "Fingerprint", "bastion-test", "")}

ParsePrivateKey(pem) == IF pem = "" THEN "error" ELSE "nil"

Instance(created, image, id, type, subnet, key, group, public, private, user) ==
    [Created |-> created, ImageID |-> image, InstanceID |-> id, InstanceType |-> type,
     SubnetID |-> subnet, KeyPairName |-> key, SecurityGroupID |-> group,
     PublicIPAddress |-> public, PrivateIPAddress |-> private, SSHUser |-> user]

\* An ec2.Instance as describe-instances and run-instances return it.
ec2Instance(state, id, public, private) ==
    [State |-> [Name |-> state], InstanceId |-> id, PublicIpAddress |-> public,
     PrivateIpAddress |-> private]

PendingInstance == ec2Instance("pending", InstanceID, Nil, Ptr(PrivateIP))

RunningInstances ==
    {ec2Instance("running", InstanceID, pub, priv) :
        pub \in {Nil, Ptr(PublicIP)}, priv \in {Nil, Ptr(PrivateIP)}}

DescribeInstancesOutput(reservations, err) == [Reservations |-> reservations, err |-> err]

Reservation(instances) == [Instances |-> instances]

PendingOutput == DescribeInstancesOutput(<<Reservation(<<PendingInstance>>)>>, "nil")

\* The final answers of describe-instances: the instance running, the
\* instance pending for ever, a reservation without instances, no
\* reservation, two instances, or an API error.
FinalOutputs ==
    {DescribeInstancesOutput(<<Reservation(<<i>>)>>, "nil") : i \in RunningInstances}
    \cup {PendingOutput,
          DescribeInstancesOutput(<<Reservation(<<>>)>>, "nil"),
          DescribeInstancesOutput(<<>>, "nil"),
          DescribeInstancesOutput(<<Reservation(<<PendingInstance, PendingInstance>>)>>, "nil"),
          DescribeInstancesOutput(<<>>, "api")}

\* The catalogs CreateInstance is run against.
InstanceCatalogs ==
    {<<>>,
     <<Image(ImageIdAt(1), Ptr("2014-06-22T09:19:44.000Z")),
       Image(ImageIdAt(2), Ptr("2016-06-22T09:19:44.000Z"))>>}

\* How the collaborators of one CreateInstance run behave: the catalog and the
\* answer of describe-images, the answer of run-instances, describe-instances
\* answering "pending" to the first `pending` polls and `final` from then on,
\* each poll taking `secs` seconds, and the dialer refusing the first `refused`
\* dials and answering `dial` from then on, each dial taking `dsecs` seconds.
\* describe-instances, asked for the k-th time.
DescribeInstances(env, k) == IF k <= env.pending THEN PendingOutput ELSE env.final

\* ssh.Dial, asked for the k-th time.
Dial(env, k) == IF k <= env.refused THEN "refused" ELSE env.dial

\* run-instances: one instance launched, an API error, none, or two.
RunInstances(mode) ==
    CASE mode = "ok" -> [Instances |-> <<PendingInstance>>, err |-> "nil"]
      [] mode = "error" -> [Instances |-> <<>>, err |-> "api"]
      [] mode = "none" -> [Instances |-> <<>>, err |-> "nil"]
      [] mode = "many" -> [Instances |-> <<PendingInstance, PendingInstance>>, err |-> "nil"]

\* Mutant: up to two instances are asked for.
RunInstancesReqPair(ami, key, group, subnet) ==
    [api |-> "RunInstances", ImageId |-> ami, InstanceType |-> instanceType,
     KeyName |-> key, MaxCount |-> 2, MinCount |-> 1,
     NetworkInterfaces |->
         <<[AssociatePublicIpAddress |-> TRUE, DeleteOnTermination |-> TRUE,
            DeviceIndex |-> 0, Groups |-> <<group>>, SubnetId |-> subnet]>>]

RunInstancesReq(ami, key, group, subnet) ==
    [api |-> "RunInstances", ImageId |-> ami, InstanceType |-> instanceType,
     KeyName |-> key, MaxCount |-> 1, MinCount |-> 1,
     NetworkInterfaces |->
         <<[AssociatePublicIpAddress |-> TRUE, DeleteOnTermination |-> TRUE,
            DeviceIndex |-> 0, Groups |-> <<group>>, SubnetId |-> subnet]>>]

DescribeInstancesReq(id) == [api |-> "DescribeInstances", InstanceIds |-> <<id>>]

DialReq(addr, user) == [api |-> "ssh.Dial", addr |-> addr, user |-> user]

TerminateInstancesReq(id) == [api |-> "TerminateInstances", InstanceIds |-> <<id>>]

\* A run of CreateInstance: where it is (pc), its arguments, its locals
\* (instance, ami, the instanceID waited for, newInstance, the end max of the
\* wait at hand), the clock
\* time.Now() reads, the polls and dials made, the answer of each poll, the
\* requests sent, and the error returned ("panic" and "exit" are the two fatal
\* outcomes, which return nothing).
Run(env, subnet, group, key) ==
    [pc |-> "LocateImage", env |-> env, keyPair |-> key,
     instance |-> Instance(FALSE, "", "", instanceType, subnet, key.KeyName, group,
                           "", "", sshUser),
     ami |-> "", instanceID |-> "", newInstance |-> Nil, now |-> 0, max |-> 0, polls |-> 0, dials |-> 0,
     seen |-> <<>>, reqs |-> <<>>, err |-> "nil"]

Return(s, err) == [s EXCEPT !.pc = "done", !.err = err]

\* Mutant: a failed image lookup does not return.
CreateInstanceImageNoReturn(s) ==
    LET l == LocateImage(s.env.catalog, s.env.imode)
    IN [s EXCEPT !.reqs = @ \o l.reqs, !.ami = l.ret, !.pc = "RunInstances"]

\* Lines 202-213: the instance is built and the image located.
CreateInstanceImage(s) ==
    LET l == LocateImage(s.env.catalog, s.env.imode)
        t == [s EXCEPT !.reqs = @ \o l.reqs]
    IN IF l.err # "nil" THEN Return(t, l.err)
       ELSE [t EXCEPT !.ami = l.ret, !.pc = "RunInstances"]

\* Mutant: the instance counts as created once it is launched.
CreateInstanceRunCreated(s) ==
    LET req == RunInstancesReq(s.ami, s.keyPair.KeyName, s.instance.SecurityGroupID,
                               s.instance.SubnetID)
        resp == RunInstances(s.env.rmode)
        t == [s EXCEPT !.reqs = Append(@, req)]
    IN IF resp.err # "nil" THEN Return(t, resp.err)
       ELSE IF Len(resp.Instances) < 1 THEN Return(t, "nolaunch")
       ELSE IF Len(resp.Instances) > 1 THEN Return(t, "panic")
       ELSE [t EXCEPT !.instanceID = resp.Instances[1].InstanceId,
                      !.instance.Created = TRUE,
                      !.max = s.now + startTimeout, !.pc = "waitForInstanceStart"]

\* Lines 216-247 and 111-122: the instance is launched and the wait for its
\* start begins.
CreateInstanceRun(s) ==
    LET req == RunInstancesReq(s.ami, s.keyPair.KeyName, s.instance.SecurityGroupID,
                               s.instance.SubnetID)
        resp == RunInstances(s.env.rmode)
        t == [s EXCEPT !.reqs = Append(@, req)]
    IN IF resp.err # "nil" THEN Return(t, resp.err)
       ELSE IF Len(resp.Instances) < 1 THEN Return(t, "nolaunch")
       ELSE IF Len(resp.Instances) > 1 THEN Return(t, "panic")
       ELSE [t EXCEPT !.instanceID = resp.Instances[1].InstanceId,
                      !.max = s.now + startTimeout, !.pc = "waitForInstanceStart"]

\* Mutant: the SSH wait is left out.
CreateInstanceRunningNoDial(s, newInstance) ==
    IF newInstance.PublicIpAddress = Nil THEN Return(s, "nopublic")
    ELSE IF newInstance.PrivateIpAddress = Nil THEN Return(s, "panic")
    ELSE Return([s EXCEPT !.newInstance = Ptr(newInstance),
                          !.instance.InstanceID = newInstance.InstanceId,
                          !.instance.PublicIPAddress = Deref(newInstance.PublicIpAddress),
                          !.instance.PrivateIPAddress = Deref(newInstance.PrivateIpAddress),
                          !.instance.Created = TRUE], "nil")

\* Lines 252-257 and 154-167: the started instance needs a public address;
\* waitForSSH parses the key (log.Fatalf ends the process when it cannot) and
\* begins its own wait.
CreateInstanceRunning(s, newInstance) ==
    IF newInstance.PublicIpAddress = Nil THEN Return(s, "nopublic")
    ELSE IF ParsePrivateKey(s.keyPair.PrivateKeyPEM) # "nil" THEN Return(s, "exit")
    ELSE [s EXCEPT !.newInstance = Ptr(newInstance), !.max = s.now + startTimeout,
                   !.pc = "waitForSSH"]

\* Mutant: when the time is up, the instance last polled is returned.
waitForInstanceStartLastSeen(s) ==
    LET k == s.polls + 1
        resp == DescribeInstances(s.env, k)
        t == [s EXCEPT !.reqs = Append(@, DescribeInstancesReq(s.instanceID)),
                       !.polls = k, !.seen = Append(@, resp), !.now = @ + s.env.secs]
    IN IF s.now > s.max
       THEN CreateInstanceRunning(s, s.seen[Len(s.seen)].Reservations[1].Instances[1])
       ELSE IF resp.err # "nil" THEN Return(t, resp.err)
       ELSE IF Len(resp.Reservations) # 1 THEN Return(t, "panic")
       ELSE IF Len(resp.Reservations[1].Instances) < 1 THEN Return(t, "notfound")
       ELSE IF Len(resp.Reservations[1].Instances) > 1 THEN Return(t, "panic")
       ELSE LET instance == resp.Reservations[1].Instances[1]
            IN IF instance.State.Name = "running" THEN CreateInstanceRunning(t, instance)
               ELSE t

\* Lines 124-148, one turn of the loop: the time is checked, then the instance
\* is described once; CreateInstance goes on when it is running.
waitForInstanceStart(s) ==
    LET k == s.polls + 1
        resp == DescribeInstances(s.env, k)
        t == [s EXCEPT !.reqs = Append(@, DescribeInstancesReq(s.instanceID)),
                       !.polls = k, !.seen = Append(@, resp), !.now = @ + s.env.secs]
    IN IF s.now > s.max THEN Return(s, "timeout")
       ELSE IF resp.err # "nil" THEN Return(t, resp.err)
       ELSE IF Len(resp.Reservations) # 1 THEN Return(t, "panic")
       ELSE IF Len(resp.Reservations[1].Instances) < 1 THEN Return(t, "notfound")
       ELSE IF Len(resp.Reservations[1].Instances) > 1 THEN Return(t, "panic")
       ELSE LET instance == resp.Reservations[1].Instances[1]
            IN IF instance.State.Name = "running" THEN CreateInstanceRunning(t, instance)
               ELSE t

\* Mutant: the two addresses are copied to each other's field.
CreateInstanceReadySwapped(s) ==
    LET n == Deref(s.newInstance)
    IN IF n.PrivateIpAddress = Nil THEN Return(s, "panic")
       ELSE Return([s EXCEPT !.instance.InstanceID = n.InstanceId,
                             !.instance.PublicIPAddress = Deref(n.PrivateIpAddress),
                             !.instance.PrivateIPAddress = Deref(n.PublicIpAddress),
                             !.instance.Created = TRUE], "nil")

\* Lines 262-268: the instance is filled in and marked created.
CreateInstanceReady(s) ==
    LET n == Deref(s.newInstance)
    IN IF n.PrivateIpAddress = Nil THEN Return(s, "panic")
       ELSE Return([s EXCEPT !.instance.InstanceID = n.InstanceId,
                             !.instance.PublicIPAddress = Deref(n.PublicIpAddress),
                             !.instance.PrivateIPAddress = Deref(n.PrivateIpAddress),
                             !.instance.Created = TRUE], "nil")

\* Mutant: a refused dial takes no time and the loop goes round unchanged.
waitForSSHRefusedForFree(s) ==
    LET k == s.dials + 1
        addr == Deref(Deref(s.newInstance).PublicIpAddress)
        t == [s EXCEPT !.reqs = Append(@, DialReq(addr, sshUser)), !.dials = k,
                       !.now = @ + s.env.dsecs]
    IN IF s.now > s.max THEN Return(s, "sshtimeout")
       ELSE IF Dial(s.env, k) = "ok" THEN CreateInstanceReady(t)
       ELSE s

\* Lines 169-176, one turn of the loop: the time is checked, then the address
\* is dialed once; CreateInstance finishes when the dial succeeds.
waitForSSH(s) ==
    LET k == s.dials + 1
        addr == Deref(Deref(s.newInstance).PublicIpAddress)
        t == [s EXCEPT !.reqs = Append(@, DialReq(addr, sshUser)), !.dials = k,
                       !.now = @ + s.env.dsecs]
    IN IF s.now > s.max THEN Return(s, "sshtimeout")
       ELSE IF Dial(s.env, k) = "ok" THEN CreateInstanceReady(t)
       ELSE t

\* terminate-instances: accepted, or an API error.
TerminateInstances(mode) == IF mode = "error" THEN [err |-> "api"] ELSE [err |-> "nil"]

\* Mutant: the instance is marked not created whatever the backend answers.
DeleteInstanceAlways(instance, mode) ==
    LET req == TerminateInstancesReq(instance.InstanceID)
        t == TerminateInstances(mode)
    IN [out |-> [instance EXCEPT !.Created = FALSE], err |-> t.err, reqs |-> <<req>>]

DeleteInstance(instance, mode) ==
    LET req == TerminateInstancesReq(instance.InstanceID)
        t == TerminateInstances(mode)
    IN IF t.err # "nil" THEN [out |-> instance, err |-> t.err, reqs |-> <<req>>]
       ELSE [out |-> [instance EXCEPT !.Created = FALSE], err |-> "nil", reqs |-> <<req>>]

(***************************************************************************)
(* The calls a caller makes.                                                *)
(***************************************************************************)
\* The call at hand repeats the successful Create right before it.
Repeats(name, args) == call.name = name /\ call.err = "nil" /\ call.in = args

\* The rule object the Create right before returned.
Held(name) == IF call.name = name /\ call.err = "nil" THEN {call.out} ELSE {}

CallFindPreExistingSecurityGroupRule ==
    \E cidr \in Cidrs, p \in PortPairs, egress \in BOOLEAN, dmode \in DescribeModes :
        LET f == FindPreExistingSecurityGroupRule(sg, GroupID, cidr, p[1], p[2], egress, dmode)
        IN /\ call' = [name |-> "FindPreExistingSecurityGroupRule",
                       in |-> SGArgs(GroupID, cidr, p[1], p[2], egress),
                       out |-> Nil, ret |-> f.ret, err |-> f.err, reqs |-> f.reqs,
                       modes |-> <<dmode>>, again |-> FALSE,
                       before |-> Backend]
           /\ UNCHANGED <<sg, acl, inst, race, held>>

CallCreateSecurityGroupRule(pairs, dmodes) ==
    \E cidr \in Cidrs, p \in pairs, egress \in BOOLEAN,
       dmode \in dmodes, mode \in CallModes :
        LET args == SGArgs(GroupID, cidr, p[1], p[2], egress)
            c == CreateSecurityGroupRule(sg, GroupID, cidr, p[1], p[2], egress, dmode, mode)
        IN /\ dmode # "ok" => mode = "ok"
           /\ sg' = c.sg
           /\ call' = [name |-> "CreateSecurityGroupRule", in |-> args, out |-> c.out,
                       ret |-> 0, err |-> c.err, reqs |-> c.reqs, modes |-> <<dmode, mode>>,
                       again |-> Repeats("CreateSecurityGroupRule", args),
                       before |-> Backend]
           /\ UNCHANGED <<acl, inst, race, held>>

CallDeleteSecurityGroupRule(rules) ==
    \E rule \in rules, mode \in CallModes :
        LET d == DeleteSecurityGroupRule(sg, rule, mode)
        IN /\ sg' = d.sg
           /\ call' = [name |-> "DeleteSecurityGroupRule", in |-> rule, out |-> d.out,
                       ret |-> 0, err |-> d.err, reqs |-> d.reqs, modes |-> <<mode>>,
                       again |-> FALSE,
                       before |-> Backend]
           /\ UNCHANGED <<acl, inst, race, held>>

CallFindVacantNetworkACLRule ==
    \E dmode \in DescribeModes :
        LET f == FindVacantNetworkACLRule(acl, AclID, dmode)
        IN /\ call' = [name |-> "FindVacantNetworkACLRule", in |-> AclID, out |-> Nil,
                       ret |-> f.ret, err |-> f.err, reqs |-> f.reqs, modes |-> <<dmode>>,
                       again |-> FALSE,
                       before |-> Backend]
           /\ UNCHANGED <<sg, acl, inst, race, held>>

CallFindPreExistingNetworkACLRule ==
    \E cidr \in Cidrs, p \in PortPairs, egress \in BOOLEAN, dmode \in DescribeModes :
        LET f == FindPreExistingNetworkACLRule(acl, AclID, cidr, p[1], p[2], egress, dmode)
        IN /\ call' = [name |-> "FindPreExistingNetworkACLRule",
                       in |-> ACLArgs(AclID, cidr, p[1], p[2], egress),
                       out |-> Nil, ret |-> f.ret, err |-> f.err, reqs |-> f.reqs,
                       modes |-> <<dmode>>, again |-> FALSE,
                       before |-> Backend]
           /\ UNCHANGED <<sg, acl, inst, race, held>>

CallCreateNetworkACLRule(pairs, dmodes) ==
    \E cidr \in Cidrs, p \in pairs, egress \in BOOLEAN,
       dmode \in dmodes, vmode \in dmodes, mode \in CallModes :
        LET args == ACLArgs(AclID, cidr, p[1], p[2], egress)
            c == CreateNetworkACLRule(acl, AclID, cidr, p[1], p[2], egress,
                                      dmode, vmode, mode)
        IN /\ dmode # "ok" => vmode = "ok"
           /\ vmode # "ok" => mode = "ok"
           /\ acl' = c.acl
           /\ call' = [name |-> "CreateNetworkACLRule", in |-> args, out |-> c.out,
                       ret |-> 0, err |-> c.err, reqs |-> c.reqs,
                       modes |-> <<dmode, vmode, mode>>,
                       again |-> Repeats("CreateNetworkACLRule", args),
                       before |-> Backend]
           /\ UNCHANGED <<sg, inst, race, held>>

CallDeleteNetworkACLRule(rules) ==
    \E rule \in rules, mode \in CallModes :
        LET d == DeleteNetworkACLRule(acl, rule, mode)
        IN /\ acl' = d.acl
           /\ call' = [name |-> "DeleteNetworkACLRule", in |-> rule, out |-> d.out,
                       ret |-> 0, err |-> d.err, reqs |-> d.reqs, modes |-> <<mode>>,
                       again |-> FALSE,
                       before |-> Backend]
           /\ UNCHANGED <<sg, inst, race, held>>

EmptyGroup == [IpPermissions |-> <<>>, IpPermissionsEgress |-> <<>>]

\* The calls of instance.go touch neither the group nor the ACL: they are made
\* with both empty.
CallMostRecentAmi ==
    \E images \in ImageLists :
        LET m == mostRecentAmi(images)
        IN /\ sg = EmptyGroup /\ acl = <<>>
           /\ call' = [name |-> "mostRecentAmi", in |-> images, out |-> m.image,
                       ret |-> 0, err |-> m.err, reqs |-> <<>>, modes |-> <<>>,
                       again |-> FALSE,
                       before |-> Backend]
           /\ UNCHANGED <<sg, acl, inst, race, held>>

CallLocateImage ==
    \E images \in ImageLists, mode \in CallModes :
        LET l == LocateImage(images, mode)
        IN /\ sg = EmptyGroup /\ acl = <<>>
           /\ call' = [name |-> "LocateImage", in |-> images, out |-> Nil,
                       ret |-> l.ret, err |-> l.err, reqs |-> l.reqs, modes |-> <<mode>>,
                       again |-> FALSE,
                       before |-> Backend]
           /\ UNCHANGED <<sg, acl, inst, race, held>>

\* The instances DeleteInstance is given: as CreateInstance returns them, with
\* or without error.
Instances ==
    {Instance(created, "", id, instanceType, SubnetID, "bastion-test", GroupID,
              public, private, sshUser) :
        created \in BOOLEAN, id \in {"", InstanceID}, public \in {"", PublicIP},
        private \in {"", PrivateIP}}

\* The key pairs DeleteKeyPair is given.
DeletableKeyPairs ==
    {KeyPair(created, fingerprint, generateKeyPairName(random), pem) :
        created \in BOOLEAN, fingerprint \in {"", "Fingerprint"},
        random \in {10, 255}, pem \in {"", "PrivateKeyPEM"}}

CallCreateKeyPair ==
    \E random \in RandInts, mode \in CallModes :
        LET c == CreateKeyPair(random, mode)
        IN /\ sg = EmptyGroup /\ acl = <<>>
           /\ call' = [name |-> "CreateKeyPair", in |-> random, out |-> c.out,
                       ret |-> 0, err |-> c.err, reqs |-> c.reqs, modes |-> <<mode>>,
                       again |-> FALSE,
                       before |-> Backend]
           /\ UNCHANGED <<sg, acl, inst, race, held>>

CallDeleteKeyPair ==
    \E kp \in DeletableKeyPairs, mode \in CallModes :
        LET d == DeleteKeyPair(kp, mode)
        IN /\ sg = EmptyGroup /\ acl = <<>>
           /\ call' = [name |-> "DeleteKeyPair", in |-> kp, out |-> d.out,
                       ret |-> 0, err |-> d.err, reqs |-> d.reqs, modes |-> <<mode>>,
                       again |-> FALSE,
                       before |-> Backend]
           /\ UNCHANGED <<sg, acl, inst, race, held>>

CallDeleteInstance ==
    \E instance \in Instances, mode \in CallModes :
        LET d == DeleteInstance(instance, mode)
        IN /\ sg = EmptyGroup /\ acl = <<>>
           /\ call' = [name |-> "DeleteInstance", in |-> instance, out |-> d.out,
                       ret |-> 0, err |-> d.err, reqs |-> d.reqs, modes |-> <<mode>>,
                       again |-> FALSE,
                       before |-> Backend]
           /\ UNCHANGED <<sg, acl, inst, race, held>>

(***************************************************************************)
(* SpecCall: one call of any function, with any input, on any contents of   *)
(* the security group or of the network ACL.                                *)
(***************************************************************************)
InitCall ==
    /\ \/ sg \in SecurityGroups /\ acl = <<>>
       \/ sg = EmptyGroup /\ acl \in NetworkAcls
    /\ call = NoCall
    /\ held = {}
    /\ inst = NoRun
    /\ race = NoRace

NextCall ==
    /\ call.name = "none"
    /\ \/ CallFindPreExistingSecurityGroupRule
       \/ CallCreateSecurityGroupRule(PortPairs, DescribeModes)
       \/ CallDeleteSecurityGroupRule(SecurityGroupRules)
       \/ CallFindVacantNetworkACLRule
       \/ CallFindPreExistingNetworkACLRule
       \/ CallCreateNetworkACLRule(PortPairs, DescribeModes)
       \/ CallDeleteNetworkACLRule(NetworkACLRules)
       \/ CallMostRecentAmi
       \/ CallLocateImage
       \/ CallDeleteInstance
       \/ CallCreateKeyPair
       \/ CallDeleteKeyPair

SpecCall == InitCall /\ [][NextCall]_vars

(***************************************************************************)
(* SpecSG, SpecACL: a single caller's serialized Create and Delete calls on *)
(* one security group, or on one network ACL; Delete is given the rule      *)
(* object the Create before it returned.  The rules asked for are SSH rules  *)
(* (port 22) for either CIDR and direction; a describe call finds the one   *)
(* resource or fails with an API error.                                     *)
(***************************************************************************)
SerialPorts == {<<22, 22>>}
SerialModes == {"ok", "error"}

InitSG ==
    /\ sg \in SecurityGroups
    /\ acl = <<>>
    /\ call = NoCall
    /\ held = {}
    /\ inst = NoRun
    /\ race = NoRace

NextSG ==
    \/ CallCreateSecurityGroupRule(SerialPorts, SerialModes)
    \/ CallDeleteSecurityGroupRule(Held("CreateSecurityGroupRule"))

SpecSG == InitSG /\ [][NextSG]_vars

InitACL ==
    /\ sg = EmptyGroup
    /\ acl \in NetworkAcls
    /\ call = NoCall
    /\ held = {}
    /\ inst = NoRun
    /\ race = NoRace

NextACL ==
    \/ CallCreateNetworkACLRule(SerialPorts, SerialModes)
    \/ CallDeleteNetworkACLRule(Held("CreateNetworkACLRule"))

SpecACL == InitACL /\ [][NextACL]_vars

\* SpecSerial: a single caller's serialized Create and Delete calls, on a
\* security group that starts with any contents or on a network ACL that
\* starts with any contents.  The two reconcilers share no state: the calls on
\* the group are followed while the ACL is empty, and the calls on the ACL
\* while the group is empty.
SpecSerial ==
    InitCall /\ [][\/ acl = <<>> /\ NextSG
                   \/ sg = EmptyGroup /\ NextACL]_vars

(***************************************************************************)
(* SpecProtocol: one Create call on a security group or a network ACL that  *)
(* holds rules of several protocols and actions: TCP and UDP permissions in *)
(* the group; TCP allow, UDP allow and TCP deny entries in the ACL.         *)
(***************************************************************************)
InitProtocol ==
    LET perms == {IpPermission(Ptr(p[1]), Ptr(p[2]), proto, <<c>>) :
                     p \in PortPairs, proto \in {"tcp", "udp"}, c \in Cidrs}
        lists == {rules \in UNION {[1..k -> perms] : k \in 0..MaxPerms} :
                     DistinctKeys(rules)}
        entries == {NetworkAclEntry("10.0.0.0/24", e, Ptr(PortRange(22, 22)),
                                    pa[1], pa[2], n) :
                       e \in BOOLEAN, n \in RuleNumbers,
                       pa \in {<<"TCP", "allow">>, <<"UDP", "allow">>, <<"TCP", "deny">>}}
    IN /\ \/ /\ \E a, b \in lists :
                   /\ Len(a) + Len(b) <= MaxPerms
                   /\ sg = [IpPermissions |-> a, IpPermissionsEgress |-> b]
             /\ acl = <<>>
          \/ /\ sg = EmptyGroup
             /\ \E T \in SUBSET entries :
                   /\ Cardinality(T) <= MaxEntries
                   /\ DistinctSlots(T)
                   /\ acl = EntryList(T)
       /\ call = NoCall
       /\ inst = NoRun
       /\ race = NoRace
       /\ held = {}

SpecProtocol ==
    InitProtocol /\ [][/\ call.name = "none"
                       /\ \/ CallCreateSecurityGroupRule(PortPairs, SerialModes)
                          \/ CallCreateNetworkACLRule(PortPairs, SerialModes)]_vars

(***************************************************************************)
(* SpecInstance: one run of CreateInstance, a step per call it makes to the  *)
(* cloud API or to the SSH dialer, against every behaviour of the two.  The  *)
(* run goes on while it has a step to take: every call it makes returns.     *)
(***************************************************************************)
\* A behaviour is drawn once for each way the run can go: what a step never
\* asks for is left at its first value.
Environments ==
    {e \in [catalog : InstanceCatalogs, imode : CallModes, rmode : DescribeModes,
            pending : 0..MaxPending, final : FinalOutputs, secs : CallSeconds,
            refused : 0..MaxRefused, dial : {"ok", "refused"}, dsecs : CallSeconds] :
        /\ (e.catalog = <<>> \/ e.imode # "ok") => e.rmode = "ok"
        /\ (e.catalog = <<>> \/ e.imode # "ok" \/ e.rmode # "ok")
               => e.pending = 0 /\ e.final = PendingOutput /\ e.secs = 100
        /\ (e.final.err # "nil" \/ e.final.Reservations \notin
                {<<Reservation(<<i>>)>> : i \in RunningInstances})
               => e.refused = 0 /\ e.dial = "ok" /\ e.dsecs = 100}

InitInstance ==
    /\ sg = EmptyGroup
    /\ acl = <<>>
    /\ call = NoCall
    /\ held = {}
    /\ race = NoRace
    /\ \E env \in Environments, key \in KeyPairs : inst = Run(env, SubnetID, GroupID, key)

DoLocateImage ==
    /\ inst.pc = "LocateImage"
    /\ inst' = CreateInstanceImage(inst)
    /\ UNCHANGED <<sg, acl, call, race, held>>

DoRunInstances ==
    /\ inst.pc = "RunInstances"
    /\ inst' = CreateInstanceRun(inst)
    /\ UNCHANGED <<sg, acl, call, race, held>>

DoWaitForInstanceStart ==
    /\ inst.pc = "waitForInstanceStart"
    /\ inst' = waitForInstanceStart(inst)
    /\ UNCHANGED <<sg, acl, call, race, held>>

DoWaitForSSH ==
    /\ inst.pc = "waitForSSH"
    /\ inst' = waitForSSH(inst)
    /\ UNCHANGED <<sg, acl, call, race, held>>

NextInstance ==
    \/ DoLocateImage
    \/ DoRunInstances
    \/ DoWaitForInstanceStart
    \/ DoWaitForSSH

SpecInstance == InitInstance /\ [][NextInstance]_vars /\ WF_vars(NextInstance)

(***************************************************************************)
(* SpecRace: two callers run CreateNetworkACLRule for different rules on the *)
(* same ACL at the same time.  A run takes one step per call to the cloud    *)
(* API: the describe of FindPreExistingNetworkACLRule, the describe of       *)
(* FindVacantNetworkACLRule, the create-entry; the steps of the two runs     *)
(* interleave in any order, and the backend answers every describe.          *)
(***************************************************************************)
Callers == {1, 2}

\* A run of CreateNetworkACLRule: where it is, its arguments, the rule it is
\* building, the requests it sent and its error; log lists the steps of both
\* runs in the order they were taken.
RaceRun(args) ==
    [pc |-> "FindPreExisting", args |-> args,
     rule |-> NetworkACLRule(args.cidr, FALSE, args.egress, args.acl, args.start,
                             args.end, FALSE, 0),
     n |-> 0, reqs |-> <<>>, err |-> "nil"]

RaceStep(r, p, pc, run) ==
    [procs |-> [r.procs EXCEPT ![p] = run], log |-> Append(r.log, <<p, pc>>)]

\* Lines 139-148: the entries are fetched and searched for the rule.
CreateNetworkACLRuleFindPreExisting(r, a, p) ==
    LET s == r.procs[p]
        f == FindPreExistingNetworkACLRule(a, s.args.acl, s.args.cidr, s.args.start,
                                           s.args.end, s.args.egress, "ok")
        t == [s EXCEPT !.reqs = @ \o f.reqs]
    IN IF f.err # "nil" THEN RaceStep(r, p, s.pc, [t EXCEPT !.pc = "done", !.err = f.err])
       ELSE IF f.ret # -1
            THEN RaceStep(r, p, s.pc,
                          [t EXCEPT !.pc = "done", !.rule.PreExisting = TRUE,
                                    !.rule.RuleNumber = f.ret, !.rule.Created = TRUE])
       ELSE RaceStep(r, p, s.pc, [t EXCEPT !.pc = "FindVacant"])

\* Mutant: the vacant number is looked for among the entries of the rule's
\* own direction.
CreateNetworkACLRuleFindVacantByDirection(r, a, p) ==
    LET s == r.procs[p]
        v == FindVacantNetworkACLRule(SelectSeq(a, LAMBDA e : e.Egress = s.args.egress),
                                      s.args.acl, "ok")
        t == [s EXCEPT !.reqs = @ \o v.reqs]
    IN IF v.err # "nil" THEN RaceStep(r, p, s.pc, [t EXCEPT !.pc = "done", !.err = v.err])
       ELSE RaceStep(r, p, s.pc, [t EXCEPT !.n = v.ret, !.pc = "CreateEntry"])

\* Lines 150-154: the entries are fetched again and the vacant number computed.
CreateNetworkACLRuleFindVacant(r, a, p) ==
    LET s == r.procs[p]
        v == FindVacantNetworkACLRule(a, s.args.acl, "ok")
        t == [s EXCEPT !.reqs = @ \o v.reqs]
    IN IF v.err # "nil" THEN RaceStep(r, p, s.pc, [t EXCEPT !.pc = "done", !.err = v.err])
       ELSE RaceStep(r, p, s.pc, [t EXCEPT !.n = v.ret, !.pc = "CreateEntry"])

\* Lines 156-175: the entry is submitted with the number computed.
CreateNetworkACLRuleCreateEntry(r, a, p, mode) ==
    LET s == r.procs[p]
        req == ACLCreateReq(s.args.acl, s.args.cidr, s.args.start, s.args.end,
                            s.args.egress, s.n)
        c == CreateNetworkAclEntry(a, req, mode)
        t == [s EXCEPT !.reqs = Append(@, req), !.pc = "done"]
    IN [race |-> IF c.err # "nil" THEN RaceStep(r, p, s.pc, [t EXCEPT !.err = c.err])
                 ELSE RaceStep(r, p, s.pc, [t EXCEPT !.rule.RuleNumber = s.n,
                                                     !.rule.Created = TRUE]),
        acl |-> c.acl]

InitRace ==
    /\ sg = EmptyGroup
    /\ acl \in NetworkAcls
    /\ call = NoCall
    /\ held = {}
    /\ inst = NoRun
    /\ \E a1, a2 \in {ACLArgs(AclID, c, p[1], p[2], e) :
                        c \in Cidrs, p \in SerialPorts, e \in BOOLEAN} :
          /\ a1 # a2
          /\ race = [procs |-> <<RaceRun(a1), RaceRun(a2)>>, log |-> <<>>]

DoFindPreExisting(p) ==
    /\ race.procs[p].pc = "FindPreExisting"
    /\ race' = CreateNetworkACLRuleFindPreExisting(race, acl, p)
    /\ UNCHANGED <<sg, acl, call, inst, held>>

DoFindVacant(p) ==
    /\ race.procs[p].pc = "FindVacant"
    /\ race' = CreateNetworkACLRuleFindVacant(race, acl, p)
    /\ UNCHANGED <<sg, acl, call, inst, held>>

DoCreateEntry(p) ==
    /\ race.procs[p].pc = "CreateEntry"
    /\ \E mode \in CallModes :
          LET c == CreateNetworkACLRuleCreateEntry(race, acl, p, mode)
          IN race' = c.race /\ acl' = c.acl
    /\ UNCHANGED <<sg, call, inst, held>>

NextRace ==
    \E p \in Callers :
        \/ DoFindPreExisting(p)
        \/ DoFindVacant(p)
        \/ DoCreateEntry(p)

SpecRace == InitRace /\ [][NextRace]_vars

(***************************************************************************)
(* SpecHeld: a single caller's serialized Create and Delete calls on one    *)
(* security group or one network ACL, the caller keeping every rule object  *)
(* a Create returned without error until it passes the object to Delete.    *)
(* The caller keeps at most MaxHeld objects at a time.                      *)
(***************************************************************************)
MaxHeld == 2

\* A Create call; the caller keeps the object returned without error.  The
\* objects kept are SecurityGroupRule and NetworkACLRule values.  The two
\* reconcilers share no state: the calls on the group are followed while the
\* ACL is empty, and the calls on the ACL while the group is empty.
HeldCreate ==
    \E cidr \in Cidrs, p \in SerialPorts, egress \in BOOLEAN,
       dmode \in SerialModes, vmode \in SerialModes, mode \in CallModes :
        LET s == CreateSecurityGroupRule(sg, GroupID, cidr, p[1], p[2], egress, dmode, mode)
            a == CreateNetworkACLRule(acl, AclID, cidr, p[1], p[2], egress,
                                      dmode, vmode, mode)
            c == IF acl = <<>> THEN [out |-> s.out, err |-> s.err, sg |-> s.sg, acl |-> acl]
                 ELSE [out |-> a.out, err |-> a.err, sg |-> sg, acl |-> a.acl]
            kept == IF c.err = "nil" THEN held \cup {c.out} ELSE held
        IN /\ acl = <<>> \/ sg = EmptyGroup
           /\ Cardinality(kept) <= MaxHeld
           /\ sg' = c.sg
           /\ acl' = c.acl
           /\ held' = kept
           /\ UNCHANGED <<call, inst, race>>

\* A Delete call on an object the caller keeps; the object is kept no longer.
HeldDelete ==
    \E rule \in held, mode \in CallModes :
        /\ IF "GroupID" \in DOMAIN rule
           THEN /\ sg' = DeleteSecurityGroupRule(sg, rule, mode).sg
                /\ acl' = acl
           ELSE /\ acl' = DeleteNetworkACLRule(acl, rule, mode).acl
                /\ sg' = sg
        /\ held' = held \ {rule}
        /\ UNCHANGED <<call, inst, race>>

SpecHeld == InitCall /\ [][HeldCreate \/ HeldDelete]_vars

(***************************************************************************)
(* SpecRaceSG: two callers run CreateSecurityGroupRule with the same        *)
(* arguments on the same security group at the same time.  A run takes one  *)
(* step per call to the cloud API: the describe of                          *)
(* FindPreExistingSecurityGroupRule, then the authorize; the steps of the   *)
(* two runs interleave in any order, and the backend answers every describe.*)
(***************************************************************************)
\* Mutant: the group is searched again right before the authorize, in one
\* step with it.
CreateSecurityGroupRuleAuthorizeChecked(r, g, p, mode) ==
    LET s == r.procs[p]
        api == IF s.args.egress = TRUE THEN "AuthorizeSecurityGroupEgress"
               ELSE "AuthorizeSecurityGroupIngress"
        req == SGAuthorizeReq(api, s.args.group, s.args.cidr, s.args.start, s.args.end)
        a == IF s.args.egress = TRUE THEN AuthorizeSecurityGroupEgress(g, req, mode)
             ELSE AuthorizeSecurityGroupIngress(g, req, mode)
        f == FindPreExistingSecurityGroupRule(g, s.args.group, s.args.cidr, s.args.start,
                                              s.args.end, s.args.egress, "ok")
        t == [s EXCEPT !.reqs = Append(@, req), !.pc = "done"]
    IN IF f.err = "nil" /\ f.ret = TRUE
       THEN [race |-> RaceStep(r, p, s.pc, [s EXCEPT !.pc = "done",
                                                     !.rule.PreExisting = TRUE,
                                                     !.rule.Created = TRUE]),
             sg |-> g]
       ELSE [race |-> IF a.err # "nil" THEN RaceStep(r, p, s.pc, [t EXCEPT !.err = a.err])
                      ELSE RaceStep(r, p, s.pc, [t EXCEPT !.rule.Created = TRUE]),
             sg |-> a.sg]

\* Lines 106-133: the authorize request of the rule's direction is sent.
CreateSecurityGroupRuleAuthorize(r, g, p, mode) ==
    LET s == r.procs[p]
        api == IF s.args.egress = TRUE THEN "AuthorizeSecurityGroupEgress"
               ELSE "AuthorizeSecurityGroupIngress"
        req == SGAuthorizeReq(api, s.args.group, s.args.cidr, s.args.start, s.args.end)
        a == IF s.args.egress = TRUE THEN AuthorizeSecurityGroupEgress(g, req, mode)
             ELSE AuthorizeSecurityGroupIngress(g, req, mode)
        t == [s EXCEPT !.reqs = Append(@, req), !.pc = "done"]
    IN [race |-> IF a.err # "nil" THEN RaceStep(r, p, s.pc, [t EXCEPT !.err = a.err])
                 ELSE RaceStep(r, p, s.pc, [t EXCEPT !.rule.Created = TRUE]),
        sg |-> a.sg]

\* The two runs of CreateSecurityGroupRule start with the same arguments: a
\* run is where it is, its arguments, the rule it is building, the requests it
\* sent and its error.
InitRaceSG ==
    /\ sg \in SecurityGroups
    /\ acl = <<>>
    /\ call = NoCall
    /\ held = {}
    /\ inst = NoRun
    /\ \E c \in Cidrs, p \in SerialPorts, e \in BOOLEAN :
          LET run == [pc |-> "FindPreExisting", args |-> SGArgs(GroupID, c, p[1], p[2], e),
                      rule |-> SecurityGroupRule(c, FALSE, e, GroupID, p[1], p[2], FALSE),
                      reqs |-> <<>>, err |-> "nil"]
          IN race = [procs |-> <<run, run>>, log |-> <<>>]

\* Lines 95-104: the group is fetched and searched for the rule.
DoSGFindPreExisting(p) ==
    LET s == race.procs[p]
        f == FindPreExistingSecurityGroupRule(sg, s.args.group, s.args.cidr, s.args.start,
                                              s.args.end, s.args.egress, "ok")
        t == [s EXCEPT !.reqs = @ \o f.reqs]
    IN /\ s.pc = "FindPreExisting"
       /\ race' = IF f.err # "nil"
                  THEN RaceStep(race, p, s.pc, [t EXCEPT !.pc = "done", !.err = f.err])
                  ELSE IF f.ret = TRUE
                  THEN RaceStep(race, p, s.pc,
                                [t EXCEPT !.pc = "done", !.rule.PreExisting = TRUE,
                                          !.rule.Created = TRUE])
                  ELSE RaceStep(race, p, s.pc, [t EXCEPT !.pc = "Authorize"])
       /\ UNCHANGED <<sg, acl, call, inst, held>>

DoSGAuthorize(p) ==
    /\ race.procs[p].pc = "Authorize"
    /\ \E mode \in CallModes :
          LET c == CreateSecurityGroupRuleAuthorize(race, sg, p, mode)
          IN race' = c.race /\ sg' = c.sg
    /\ UNCHANGED <<acl, call, inst, held>>

SpecRaceSG ==
    InitRaceSG /\ [][\E p \in Callers : DoSGFindPreExisting(p) \/ DoSGAuthorize(p)]_vars

(***************************************************************************)
(* Properties.                                                              *)
(***************************************************************************)
AuthorizeAPIs == {"AuthorizeSecurityGroupIngress", "AuthorizeSecurityGroupEgress"}
RevokeAPIs == {"RevokeSecurityGroupIngress", "RevokeSecurityGroupEgress"}
DeleteAPIs == RevokeAPIs \cup {"DeleteNetworkAclEntry"}

\* The requests of a call record that went to the APIs named.
ReqsTo(c, apis) == SelectSeq(c.reqs, LAMBDA r : r.api \in apis)

\* C1: a CreateSecurityGroupRule right after a successful
\* CreateSecurityGroupRule with the same group, CIDR, ports and direction sends
\* no authorize-ingress or authorize-egress request, and the rule it returns
\* (once the group was described) has PreExisting = true and Created = true.
C1_RepeatedCreateIsPreExisting ==
    (call.name = "CreateSecurityGroupRule" /\ call.again) =>
        /\ ReqsTo(call, AuthorizeAPIs) = <<>>
        /\ call.err = "nil" => (call.out.PreExisting = TRUE /\ call.out.Created = TRUE)

\* C1 witness: the repeated Create has returned its rule.
C1_Witness ==
    /\ call.name = "CreateSecurityGroupRule"
    /\ call.again
    /\ call.err = "nil"
    /\ call.out.PreExisting = TRUE
    /\ ~call.in.egress
    /\ \E i \in 1..Len(sg.IpPermissions) :
          /\ sg.IpPermissions[i].FromPort = Ptr(call.in.start)
          /\ InRanges(sg.IpPermissions[i].IpRanges, call.in.cidr)

\* C2: DeleteSecurityGroupRule and DeleteNetworkACLRule, given a rule whose
\* PreExisting flag is true, send no revoke-ingress, revoke-egress or
\* delete-entry request.
C2_PreExistingNeverDeleted ==
    (call.name \in {"DeleteSecurityGroupRule", "DeleteNetworkACLRule"}
     /\ call.in.PreExisting = TRUE) => ReqsTo(call, DeleteAPIs) = <<>>

\* C2 witness: a pre-existing ACL rule whose entry the ACL holds was given to
\* Delete, and the entry is still there.
C2_Witness ==
    /\ call.name = "DeleteNetworkACLRule"
    /\ call.in.PreExisting = TRUE
    /\ call.in.Created = TRUE
    /\ call.err = "nil"
    /\ SlotTaken(acl, call.in.RuleNumber, call.in.Egress)

\* The rule numbers of the entries of an ACL.
Occupied(a) == {a[i].RuleNumber : i \in 1..Len(a)}

\* C3: FindVacantNetworkACLRule returns the smallest non-negative integer that
\* is not the rule number of any entry of the ACL, whatever the entries'
\* directions.
C3_VacantIsSmallestFree ==
    (call.name = "FindVacantNetworkACLRule" /\ call.err = "nil") =>
        /\ call.ret \notin Occupied(acl)
        /\ \A k \in 0..(call.ret - 1) : k \in Occupied(acl)

\* C4: the rule number a CreateNetworkACLRule submits in a create-entry request
\* is never the number of an entry the ACL already holds for that direction.
C4_SubmittedNumberIsFree ==
    [][call'.name = "CreateNetworkACLRule" =>
         \A i \in 1..Len(call'.reqs) :
            call'.reqs[i].api = "CreateNetworkAclEntry" =>
                ~SlotTaken(acl, call'.reqs[i].RuleNumber, call'.reqs[i].Egress)]_vars

\* The rule numbers of the entries of an ACL that have the CIDR, the port
\* range and the direction asked for.
MatchingNumbers(a, args) ==
    {a[i].RuleNumber : i \in {j \in 1..Len(a) :
        /\ a[j].CidrBlock = args.cidr
        /\ a[j].PortRange = Ptr(PortRange(args.start, args.end))
        /\ a[j].Egress = args.egress}}

\* C5: when the ACL is described and none of its entries matches the request,
\* CreateNetworkACLRule sends exactly one create-entry request, with protocol
\* TCP, action allow, the CIDR, ports and direction asked for and the rule
\* number the slot allocator computes over all entries of the ACL (1 for
\* entries numbered 0 and 100); when the request is accepted the rule returned
\* has that RuleNumber, Created = true and PreExisting = false.
C5_CreateAllocatesVacantSlot ==
    [][(/\ call'.name = "CreateNetworkACLRule"
        /\ call'.modes[1] = "ok"
        /\ call'.modes[2] = "ok"
        /\ call'.err # "panic"
        /\ MatchingNumbers(acl, call'.in) = {}) =>
          LET slot == FindVacantNetworkACLRule(acl, AclID, "ok").ret
              sent == ReqsTo(call', {"CreateNetworkAclEntry"})
          IN /\ sent = <<[api |-> "CreateNetworkAclEntry", CidrBlock |-> call'.in.cidr,
                           Egress |-> call'.in.egress, NetworkAclId |-> call'.in.acl,
                           PortRange |-> [From |-> call'.in.start, To |-> call'.in.end],
                           Protocol |-> "TCP", RuleAction |-> "allow",
                           RuleNumber |-> slot]>>
             /\ Occupied(acl) = {0, 100} => sent[1].RuleNumber = 1
             /\ call'.modes[3] = "error" => call'.err = "api"
             /\ call'.err = "nil" =>
                    call'.out = NetworkACLRule(call'.in.cidr, TRUE, call'.in.egress,
                                               call'.in.acl, call'.in.start, call'.in.end,
                                               FALSE, slot)]_vars

\* C5 witness: a rule was created with number 1 in an ACL that held entries
\* numbered 0 and 100.
C5_Witness ==
    /\ call.name = "CreateNetworkACLRule"
    /\ call.err = "nil"
    /\ call.out.PreExisting = FALSE
    /\ call.out.RuleNumber = 1
    /\ Occupied(acl) = {0, 1, 100}
    /\ MatchingNumbers(acl, call.in) = {1}

\* C6: when an entry of the ACL has the CIDR, ports and direction asked for,
\* CreateNetworkACLRule returns the rule number of such an entry with
\* PreExisting = true and Created = true, sends no create-entry request and
\* leaves the ACL as it is; a Create right after a successful Create with the
\* same arguments returns PreExisting = true and the same RuleNumber.
C6_MatchedCreateIsPreExisting ==
    [][/\ (/\ call'.name = "CreateNetworkACLRule"
            /\ call'.err = "nil"
            /\ MatchingNumbers(acl, call'.in) # {}) =>
              /\ call'.out.PreExisting = TRUE
              /\ call'.out.Created = TRUE
              /\ call'.out.RuleNumber \in MatchingNumbers(acl, call'.in)
              /\ ReqsTo(call', {"CreateNetworkAclEntry"}) = <<>>
              /\ acl' = acl
       /\ (/\ call'.name = "CreateNetworkACLRule"
            /\ call'.again
            /\ call'.err = "nil") =>
              /\ call'.out.PreExisting = TRUE
              /\ call'.out.RuleNumber = call.out.RuleNumber
              /\ acl' = acl]_vars

\* C6 witness: the repeated Create has returned the number of the entry.
C6_Witness ==
    /\ call.name = "CreateNetworkACLRule"
    /\ call.again
    /\ call.err = "nil"
    /\ call.out.PreExisting = TRUE
    /\ call.out.RuleNumber = 1
    /\ MatchingNumbers(acl, call.in) = {1}

\* The group holds, in the list of the direction asked for, a permission with
\* exactly the ports asked for whose ranges include the CIDR asked for.
SGHasRule(g, args) ==
    LET rules == IF args.egress THEN g.IpPermissionsEgress ELSE g.IpPermissions
    IN \E i \in 1..Len(rules) :
          /\ rules[i].FromPort = Ptr(args.start)
          /\ rules[i].ToPort = Ptr(args.end)
          /\ InRanges(rules[i].IpRanges, args.cidr)

\* C7: FindPreExistingSecurityGroupRule returns true if and only if the list
\* of the direction asked for holds a permission with the same CIDR and
\* exactly the ports asked for.
C7_MatcherIsExact ==
    (call.name = "FindPreExistingSecurityGroupRule" /\ call.err = "nil") =>
        (call.ret = SGHasRule(sg, call.in))

\* C7 witness: the group holds the CIDR for ports 22-22, inbound; asked for
\* ports 20-25, the matcher has returned false.
C7_Witness ==
    /\ call.name = "FindPreExistingSecurityGroupRule"
    /\ call.err = "nil"
    /\ call.ret = FALSE
    /\ call.in.start = 20 /\ call.in.end = 25 /\ ~call.in.egress
    /\ SGHasRule(sg, [call.in EXCEPT !.start = 22, !.end = 22])

\* C8: FindPreExistingNetworkACLRule returns with a nil error the rule number
\* of an entry with the CIDR, ports and direction asked for, and -1 with a nil
\* error when there is none; when the describe call fails or finds no ACL it
\* returns an error.
C8_FindReturnsNumberOrMinusOne ==
    call.name = "FindPreExistingNetworkACLRule" =>
        /\ call.err = "nil" =>
              /\ (call.ret = -1) <=> (MatchingNumbers(acl, call.in) = {})
              /\ call.ret # -1 => call.ret \in MatchingNumbers(acl, call.in)
        /\ call.modes[1] \in {"error", "none"} => call.err \in {"api", "notfound"}

\* C8 witness: the entry 10.0.0.0/24:22-22, inbound, numbered 100 was found.
C8_Witness ==
    /\ call.name = "FindPreExistingNetworkACLRule"
    /\ call.err = "nil"
    /\ call.in = ACLArgs(AclID, "10.0.0.0/24", 22, 22, FALSE)
    /\ call.ret = 100

\* C9: Delete of a rule whose PreExisting flag is true returns the rule with
\* the Created value it was given.
C9_PreExistingDeleteKeepsCreated ==
    (call.name \in {"DeleteSecurityGroupRule", "DeleteNetworkACLRule"}
     /\ call.in.PreExisting = TRUE) => call.out.Created = call.in.Created

\* The one request a Delete of the rule sends.
DeleteRequest(name, rule) ==
    IF name = "DeleteSecurityGroupRule"
    THEN [api |-> IF rule.Egress THEN "RevokeSecurityGroupEgress"
                  ELSE "RevokeSecurityGroupIngress",
          CidrIp |-> rule.CidrBlock, FromPort |-> rule.StartPort, IpProtocol |-> "tcp",
          ToPort |-> rule.EndPort, GroupId |-> rule.GroupID]
    ELSE [api |-> "DeleteNetworkAclEntry", Egress |-> rule.Egress,
          NetworkAclId |-> rule.NetworkAclID, RuleNumber |-> rule.RuleNumber]

\* C10: for a rule with PreExisting = false, DeleteSecurityGroupRule sends
\* exactly one revoke request, of the rule's direction, and
\* DeleteNetworkACLRule exactly one delete-entry request; when it is accepted
\* the rule returned is the input with Created = false, and when it fails the
\* error is returned with the rule as it was given.
C10_DeleteRevokesOwnRule ==
    (call.name \in {"DeleteSecurityGroupRule", "DeleteNetworkACLRule"}
     /\ call.in.PreExisting = FALSE) =>
        /\ call.reqs = <<DeleteRequest(call.name, call.in)>>
        /\ call.modes[1] = "error" => call.err # "nil"
        /\ call.err = "nil" => call.out = [call.in EXCEPT !.Created = FALSE]
        /\ call.err # "nil" => call.out = call.in

\* C10 witness: an outbound rule the group held was revoked.
C10_Witness ==
    /\ call.name = "DeleteSecurityGroupRule"
    /\ call.in.PreExisting = FALSE
    /\ call.in.Egress = TRUE
    /\ call.in.Created = TRUE
    /\ call.err = "nil"
    /\ call.out.Created = FALSE
    /\ ~SGHasRule(sg, SGArgs(call.in.GroupID, call.in.CidrBlock, call.in.StartPort,
                             call.in.EndPort, TRUE))

(***************************************************************************)
(* Properties of the instance lifecycle.                                    *)
(***************************************************************************)
\* The positions in the run's requests of the calls to one API.
PositionsOf(s, api) == {j \in 1..Len(s.reqs) : s.reqs[j].api = api}

\* A describe-instances answer that shows the one instance running.
ShowsRunning(resp) ==
    /\ resp.err = "nil"
    /\ Len(resp.Reservations) = 1
    /\ Len(resp.Reservations[1].Instances) = 1
    /\ resp.Reservations[1].Instances[1].State.Name = "running"

\* The last poll showed the instance running, and the last request of the run
\* is an SSH dial to the public address that poll reported, made after every
\* poll, which the dialer accepted.
RunningThenReachable(s) ==
    /\ s.polls >= 1
    /\ ShowsRunning(s.seen[s.polls])
    /\ s.dials >= 1
    /\ Dial(s.env, s.dials) = "ok"
    /\ LET n == s.seen[s.polls].Reservations[1].Instances[1]
           j == Len(s.reqs)
       IN /\ n.PublicIpAddress # Nil
          /\ s.reqs[j] = DialReq(Deref(n.PublicIpAddress), sshUser)
          /\ \A k \in PositionsOf(s, "DescribeInstances") : k < j

\* C11: in every run of CreateInstance the Instance has Created=true only
\* once a describe-instances poll has reported the state "running" and, after
\* it, an SSH dial to the public address it reported has succeeded; in every
\* other outcome, and all along the way, Created is false.
C11_CreatedOnlyWhenReady ==
    inst.instance.Created = TRUE
        => inst.pc = "done" /\ inst.err = "nil" /\ RunningThenReachable(inst)

\* A run that ends created after a poll that answered "pending" and a dial that
\* was refused.
C11_Witness ==
    /\ inst.pc = "done"
    /\ inst.instance.Created = TRUE
    /\ inst.polls >= 2
    /\ inst.dials >= 2

\* A describe-instances answer without error and without any instance.
ShowsNoInstance(resp) ==
    /\ resp.err = "nil"
    /\ \A i \in 1..Len(resp.Reservations) : Len(resp.Reservations[i].Instances) = 0

\* C12: a describe-instances answer that holds no instance for the polled ID
\* is transient: after it the run is still polling, or has ended on the
\* timeout; it never ends the wait with another error, nor fatally.
C12_NoInstanceIsTransient ==
    (inst.pc # "idle" /\ inst.polls >= 1 /\ ShowsNoInstance(inst.seen[inst.polls]))
        => \/ inst.pc = "waitForInstanceStart"
           \/ inst.pc = "done" /\ inst.err = "timeout"

\* No poll that falls in the wait's window is answered "running": the backend
\* answers "pending" for ever, or for longer than the window.
NeverRunningInWindow(s) ==
    \/ s.env.final = PendingOutput
    \/ s.env.pending * s.env.secs > startTimeout

TimedOut(s) ==
    /\ s.pc = "done"
    /\ s.err = "timeout"
    /\ s.instance.Created = FALSE
    /\ PositionsOf(s, "ssh.Dial") = {}

\* C13: when the backend never reports "running" within the window of
\* startTimeout seconds, the wait for the start leads to CreateInstance
\* returning the timeout error, with Created=false and without any SSH dial.
C13_NeverRunningTimesOut ==
    (inst.pc = "waitForInstanceStart" /\ NeverRunningInWindow(inst)) ~> TimedOut(inst)

C13_Witness ==
    /\ TimedOut(inst)
    /\ NeverRunningInWindow(inst)
    /\ inst.polls >= 2
    /\ inst.now > inst.max

\* The backend answers "pending" to N polls and then "running" with both
\* addresses, the dialer refuses M dials and then accepts, and both the poll
\* and the dial that succeed begin within their window; the image lookup, the
\* launch and the key are good.
ReadinessScenario(s) ==
    /\ s.env.catalog # <<>> /\ s.env.imode = "ok" /\ s.env.rmode = "ok"
    /\ ShowsRunning(s.env.final)
    /\ s.env.final.Reservations[1].Instances[1].PublicIpAddress # Nil
    /\ s.env.final.Reservations[1].Instances[1].PrivateIpAddress # Nil
    /\ s.env.pending * s.env.secs <= startTimeout
    /\ s.env.dial = "ok"
    /\ s.env.refused * s.env.dsecs <= startTimeout
    /\ ParsePrivateKey(s.keyPair.PrivateKeyPEM) = "nil"

Ready(s) ==
    /\ s.pc = "done"
    /\ s.err = "nil"
    /\ s.instance.Created = TRUE
    /\ LET n == s.env.final.Reservations[1].Instances[1]
       IN /\ s.instance.PublicIPAddress = Deref(n.PublicIpAddress)
          /\ s.instance.PrivateIPAddress = Deref(n.PrivateIpAddress)

\* C14: against a backend that reports "pending" N times and then "running",
\* and a dialer that fails M times and then succeeds, both within the timeout
\* window, CreateInstance eventually returns a nil error with Created=true and
\* with the public and private addresses of the answer that showed "running".
C14_ReadinessReached ==
    (inst.pc = "LocateImage" /\ ReadinessScenario(inst)) ~> Ready(inst)

C14_Witness ==
    /\ ReadinessScenario(inst)
    /\ Ready(inst)
    /\ inst.env.pending >= 1 /\ inst.polls = inst.env.pending + 1
    /\ inst.env.refused >= 1 /\ inst.dials = inst.env.refused + 1

\* The largest rule number an entry may be given.
MaxRuleNumber == 32766

\* C15: every rule number CreateNetworkACLRule submits in a create-entry
\* request lies in 1..32766, whatever the ACL holds.
C15_AssignedNumberInRange ==
    call.name = "CreateNetworkACLRule"
        => LET created == ReqsTo(call, {"CreateNetworkAclEntry"})
           IN \A i \in 1..Len(created) : created[i].RuleNumber \in 1..MaxRuleNumber

\* The error each step of CreateInstance answers a failing collaborator with.
ImageError(env) ==
    IF env.imode = "error" THEN "api" ELSE IF env.catalog = <<>> THEN "notfound" ELSE "nil"

RunError(env) ==
    IF env.rmode = "error" THEN "api" ELSE IF env.rmode = "none" THEN "nolaunch" ELSE "nil"

\* C17: a failing step of CreateInstance ends the run there: the run returns
\* that step's error and an Instance with Created=false, and the last request
\* it sent is the failing step's; no run-instances follows a failed image
\* lookup, no describe-instances a failed launch, no SSH dial a failed
\* describe-instances or a missing public address, and nothing a failed SSH
\* wait.
C17_FailingStepShortCircuits ==
    (inst.pc = "done" /\ inst.err \notin {"panic", "exit"}) =>
        /\ inst.err # "nil" => inst.instance.Created = FALSE
        /\ ImageError(inst.env) # "nil"
               => inst.err = ImageError(inst.env) /\ inst.reqs = <<DescribeImagesReq>>
        /\ (ImageError(inst.env) = "nil" /\ RunError(inst.env) # "nil")
               => /\ inst.err = RunError(inst.env)
                  /\ Len(inst.reqs) = 2
                  /\ inst.reqs[2].api = "RunInstances"
        /\ (inst.polls >= 1 /\ inst.seen[inst.polls].err # "nil")
               => /\ inst.err = inst.seen[inst.polls].err
                  /\ inst.reqs[Len(inst.reqs)].api = "DescribeInstances"
        /\ (inst.polls >= 1 /\ ShowsRunning(inst.seen[inst.polls])
              /\ inst.seen[inst.polls].Reservations[1].Instances[1].PublicIpAddress = Nil)
               => /\ inst.err = "nopublic"
                  /\ inst.reqs[Len(inst.reqs)].api = "DescribeInstances"
        /\ inst.err \in {"timeout", "notfound", "nopublic"}
               => PositionsOf(inst, "ssh.Dial") = {}
        /\ (inst.dials >= 1 /\ Dial(inst.env, inst.dials) # "ok")
               => inst.err = "sshtimeout" /\ inst.now > inst.max

\* A describe-instances call fails after a poll that answered "pending".
C17_Witness ==
    /\ inst.pc = "done"
    /\ inst.err = "api"
    /\ inst.polls >= 2
    /\ inst.seen[inst.polls].err = "api"

\* C18: DeleteInstance sends exactly one request, terminate-instances for the
\* instance's ID, and no describe-instances; accepted, it returns the instance
\* with Created=false and the other fields as given; refused, it returns the
\* error and the instance as given.
C18_DeleteTerminatesOnce ==
    call.name = "DeleteInstance" =>
        /\ call.reqs = <<TerminateInstancesReq(call.in.InstanceID)>>
        /\ call.modes[1] = "ok"
               => call.err = "nil" /\ call.out = [call.in EXCEPT !.Created = FALSE]
        /\ call.modes[1] = "error" => call.err = "api" /\ call.out = call.in

C18_Witness ==
    /\ call.name = "DeleteInstance"
    /\ call.in.Created = TRUE
    /\ call.in.InstanceID = InstanceID
    /\ call.err = "api"
    /\ call.out.Created = TRUE

\* The creation time of an image as time.Parse reads it, nanoseconds included.
ParsedTime(image) == ParseRFC3339(Deref(image.CreationDate)).t

\* t is strictly earlier than u.
TimeBefore(t, u) ==
    \/ Int64Less(Unix(t), Unix(u))
    \/ Unix(t) = Unix(u) /\ t.nsec < u.nsec

HasDates(images) == \A i \in 1..Len(images) : images[i].CreationDate # Nil

\* C19: for every non-empty list of images (each with a creation date),
\* mostRecentAmi returns an image of the list such that no image of the list
\* has a strictly later parsed creation time.
C19_ReturnsLatestImage ==
    (call.name = "mostRecentAmi" /\ Len(call.in) > 0 /\ HasDates(call.in)) =>
        /\ call.err = "nil"
        /\ \E i \in 1..Len(call.in) : call.in[i] = Deref(call.out)
        /\ \A i \in 1..Len(call.in) :
               ~TimeBefore(ParsedTime(Deref(call.out)), ParsedTime(call.in[i]))

Parseable(image) == ParseRFC3339(Deref(image.CreationDate)).err = "nil"

\* C20: an image whose creation date does not parse never makes mostRecentAmi
\* fail, and it is ordered as the oldest: when the list holds an image whose
\* date parses, the image returned is one whose date parses.
C20_UnparseableSortsOldest ==
    (call.name = "mostRecentAmi" /\ Len(call.in) > 0 /\ HasDates(call.in)) =>
        /\ call.err = "nil"
        /\ (\E i \in 1..Len(call.in) : Parseable(call.in[i])) => Parseable(Deref(call.out))

\* The list ends with an image whose date does not parse, after one whose
\* date parses.
C20_Witness ==
    /\ call.name = "mostRecentAmi"
    /\ Len(call.in) >= 2
    /\ HasDates(call.in)
    /\ ~Parseable(call.in[Len(call.in)])
    /\ Parseable(call.in[1])
    /\ call.err = "nil"
    /\ Parseable(Deref(call.out))

(***************************************************************************)
(* Properties of the concurrent calls.                                      *)
(***************************************************************************)
\* The positions in the log of the steps of one kind.
LogPositions(r, pc) == {i \in 1..Len(r.log) : r.log[i][2] = pc}

\* Both callers have fetched the entries for the vacant number, and neither
\* had issued its create-entry before the second of these fetches.
BothFetchedBeforeCreate(r) ==
    /\ \A p \in Callers : \E i \in LogPositions(r, "FindVacant") : r.log[i][1] = p
    /\ \A i \in LogPositions(r, "FindVacant"), j \in LogPositions(r, "CreateEntry") : i < j

Submitted(s) == ReqsTo(s, {"CreateNetworkAclEntry"})

\* C16: two concurrent CreateNetworkACLRule calls for different rules on one
\* ACL race on the rule number: whenever both fetch the entries before either
\* issues create-entry, both compute the same vacant number, and each
\* create-entry request they then send carries that number.
C16_ConcurrentCreatesShareNumber ==
    (race # NoRace /\ BothFetchedBeforeCreate(race)) =>
        /\ race.procs[1].n = race.procs[2].n
        /\ \A p \in Callers :
               \A i \in 1..Len(Submitted(race.procs[p])) :
                   Submitted(race.procs[p])[i].RuleNumber = race.procs[1].n

\* Both callers, asking for different rules, have fetched before either
\* created, and both have sent create-entry with the same rule number.
C16_Witness ==
    /\ race # NoRace
    /\ BothFetchedBeforeCreate(race)
    /\ race.procs[1].args # race.procs[2].args
    /\ \A p \in Callers : Len(Submitted(race.procs[p])) = 1
    /\ Submitted(race.procs[1])[1].RuleNumber = Submitted(race.procs[2])[1].RuleNumber

(***************************************************************************)
(* Properties of the key pair lifecycle.                                    *)
(***************************************************************************)
\* The number a string of hexadecimal digits denotes.
RECURSIVE HexValue(_)
HexValue(digits) ==
    IF digits = <<>> THEN 0
    ELSE LET d == digits[Len(digits)]
             v == CHOOSE i \in 1..16 : HexDigits[i] = d
         IN 16 * HexValue(SubSeq(digits, 1, Len(digits) - 1)) + (v - 1)

IsHex(digits) ==
    /\ digits # <<>>
    /\ \A i \in 1..Len(digits) : \E j \in 1..16 : HexDigits[j] = digits[i]

\* C23: CreateKeyPair sends one create-key-pair request, for a name made of
\* the prefix "bastion-" and the hexadecimal digits of the random integer; on
\* success it returns the KeyPair of that name with the fingerprint and the
\* key material of the answer and Created=true; on failure it returns the
\* error with Created=false and with fingerprint and key material empty.
C23_CreateKeyPairNamesAndFills ==
    call.name = "CreateKeyPair" =>
        /\ Len(call.reqs) = 1
        /\ call.reqs[1].api = "CreateKeyPair"
        /\ LET name == call.reqs[1].KeyName
               n == Len(keyPairNamePrefix)
               id == SubSeq(name, n + 1, Len(name))
           IN /\ SubSeq(name, 1, n) = keyPairNamePrefix
              /\ IsHex(id)
              /\ HexValue(id) = call.in
              /\ call.out.KeyName = name
              /\ call.modes[1] = "ok"
                     => /\ call.err = "nil"
                        /\ call.out.Created = TRUE
                        /\ call.out.Fingerprint = CreateKeyPairOutput(name, "ok").KeyFingerprint
                        /\ call.out.PrivateKeyPEM = CreateKeyPairOutput(name, "ok").KeyMaterial
              /\ call.modes[1] = "error"
                     => /\ call.err = "api"
                        /\ call.out.Created = FALSE
                        /\ call.out.Fingerprint = ""
                        /\ call.out.PrivateKeyPEM = ""

\* A key pair created under the name "bastion-beef".
C23_Witness ==
    /\ call.name = "CreateKeyPair"
    /\ call.in = 48879
    /\ call.err = "nil"
    /\ call.out.Created = TRUE
    /\ call.out.KeyName = keyPairNamePrefix \o <<"b", "e", "e", "f">>

\* C24: DeleteKeyPair sends one delete-key-pair request, keyed by the key
\* pair's name; accepted, it returns the KeyPair with Created=false and the
\* other fields as given; refused, it returns the error and the KeyPair as
\* given.
C24_DeleteKeyPairByName ==
    call.name = "DeleteKeyPair" =>
        /\ call.reqs = <<[api |-> "DeleteKeyPair", KeyName |-> call.in.KeyName]>>
        /\ call.modes[1] = "ok"
               => call.err = "nil" /\ call.out = [call.in EXCEPT !.Created = FALSE]
        /\ call.modes[1] = "error" => call.err = "api" /\ call.out = call.in

C24_Witness ==
    /\ call.name = "DeleteKeyPair"
    /\ call.in.Created = TRUE
    /\ call.in.Fingerprint = "Fingerprint"
    /\ call.err = "nil"
    /\ call.out.Created = FALSE
    /\ call.out.Fingerprint = "Fingerprint"

(***************************************************************************)
(* Properties of the Create calls' failures.                                *)
(***************************************************************************)
CreateNames == {"CreateSecurityGroupRule", "CreateNetworkACLRule"}
DescribeAPIs == {"DescribeSecurityGroups", "DescribeNetworkAcls"}
MutationAPIs == AuthorizeAPIs \cup {"CreateNetworkAclEntry"} \cup DeleteAPIs

\* The answer the backend gave to the last describe request of the call.
LastDescribeMode(c) == c.modes[Len(ReqsTo(c, DescribeAPIs))]

\* C21: when a describe call of CreateSecurityGroupRule or
\* CreateNetworkACLRule fails or finds no resource, the call returns that
\* error with a rule whose Created and PreExisting are false, and sends no
\* authorize or create-entry request; when the authorize or create-entry call
\* fails, the call returns that error with Created=false.
C21_CreateFailuresReturnUnusableRule ==
    call.name \in CreateNames =>
        /\ LastDescribeMode(call) \in {"error", "none"}
               => /\ call.err = (IF LastDescribeMode(call) = "error" THEN "api"
                                 ELSE "notfound")
                  /\ call.out.Created = FALSE
                  /\ call.out.PreExisting = FALSE
                  /\ ReqsTo(call, MutationAPIs) = <<>>
        /\ (ReqsTo(call, MutationAPIs) # <<>> /\ call.modes[Len(call.modes)] = "error")
               => /\ call.err = "api"
                  /\ call.out.Created = FALSE

\* The second describe of CreateNetworkACLRule finds no ACL.
C21_Witness ==
    /\ call.name = "CreateNetworkACLRule"
    /\ Len(ReqsTo(call, DescribeAPIs)) = 2
    /\ LastDescribeMode(call) = "none"
    /\ call.err = "notfound"
    /\ call.out.Created = FALSE

\* The calls that describe a security group or a network ACL by its ID.
DescribingNames ==
    CreateNames \cup {"FindPreExistingSecurityGroupRule", "FindVacantNetworkACLRule",
                      "FindPreExistingNetworkACLRule"}

\* C22: when a describe-by-ID call for the one security group or the one
\* network ACL returns more than one resource, the operation ends in the fatal
\* outcome, not in a returned error, and sends no mutation request.
C22_SeveralResourcesAreFatal ==
    (call.name \in DescribingNames /\ LastDescribeMode(call) = "many") =>
        /\ call.err = "panic"
        /\ ReqsTo(call, MutationAPIs) = <<>>

\* CreateSecurityGroupRule is answered with two groups.
C22_Witness ==
    /\ call.name = "CreateSecurityGroupRule"
    /\ LastDescribeMode(call) = "many"
    /\ call.err = "panic"

(***************************************************************************)
(* The launch request of CreateInstance, the empty catalog, and the order   *)
(* of the steps of a run.                                                   *)
(***************************************************************************)
\* The run-instances requests a run has sent.
RunInstancesRequests(s) == SelectSeq(s.reqs, LAMBDA r : r.api = "RunInstances")

\* A request for exactly one instance, with one network interface on the given
\* subnet and security group that gets a public address.
AsksForOne(req, subnet, group) ==
    /\ req.MinCount = 1
    /\ req.MaxCount = 1
    /\ Len(req.NetworkInterfaces) = 1
    /\ req.NetworkInterfaces[1].SubnetId = subnet
    /\ req.NetworkInterfaces[1].Groups = <<group>>
    /\ req.NetworkInterfaces[1].AssociatePublicIpAddress = TRUE

\* C25: a run of CreateInstance sends at most one run-instances request, and
\* exactly one once the image was resolved; the request asks for exactly one
\* instance (min = max = 1) on the given subnet and security group with a
\* public address.  When the answer carries no instance the run returns the
\* launch error with Created=false and no describe-instances was sent; when it
\* carries more than one the run panics.
C25_LaunchesExactlyOne ==
    LET runs == RunInstancesRequests(inst)
    IN /\ Len(runs) <= 1
       /\ \A j \in 1..Len(runs) : AsksForOne(runs[j], SubnetID, GroupID)
       /\ (inst.pc = "done" /\ ImageError(inst.env) = "nil") => Len(runs) = 1
       /\ (Len(runs) = 1 /\ inst.env.rmode = "none")
              => /\ inst.pc = "done"
                 /\ inst.err = "nolaunch"
                 /\ inst.instance.Created = FALSE
                 /\ PositionsOf(inst, "DescribeInstances") = {}
       /\ (Len(runs) = 1 /\ inst.env.rmode = "many")
              => /\ inst.pc = "done"
                 /\ inst.err = "panic"
                 /\ PositionsOf(inst, "DescribeInstances") = {}

\* A run whose launch was answered without any instance.
C25_Witness ==
    /\ inst.pc = "done"
    /\ inst.env.rmode = "none"
    /\ inst.err = "nolaunch"
    /\ Len(RunInstancesRequests(inst)) = 1

\* C26: with an empty catalog answered by describe-images, LocateImage returns
\* the not-found error and no image, and the run of CreateInstance returns that
\* error, not created, after the describe-images request alone.
C26_EmptyCatalogIsNotFound ==
    (inst.env.catalog = <<>> /\ inst.env.imode = "ok") =>
        /\ LocateImage(inst.env.catalog, inst.env.imode).err = "notfound"
        /\ LocateImage(inst.env.catalog, inst.env.imode).ret = ""
        /\ RunInstancesRequests(inst) = <<>>
        /\ inst.pc = "done"
               => /\ inst.err = "notfound"
                  /\ inst.instance.Created = FALSE
                  /\ inst.reqs = <<DescribeImagesReq>>

\* A run that ended on the empty catalog.
C26_Witness ==
    /\ inst.pc = "done"
    /\ inst.env.catalog = <<>>
    /\ inst.env.imode = "ok"
    /\ inst.reqs = <<DescribeImagesReq>>

\* The place of a run among the steps of CreateInstance.
StepRank(pc) ==
    CASE pc = "LocateImage" -> 1
      [] pc = "RunInstances" -> 2
      [] pc = "waitForInstanceStart" -> 3
      [] pc = "waitForSSH" -> 4
      [] pc = "done" -> 5

\* Every request of the first kind was sent before every one of the second.
AllBefore(s, first, second) ==
    \A j \in PositionsOf(s, first), k \in PositionsOf(s, second) : j < k

\* The requests of a run came in the order of the steps, each step after the
\* one before it succeeded.
StepsInOrder(s) ==
    /\ AllBefore(s, "DescribeImages", "RunInstances")
    /\ AllBefore(s, "RunInstances", "DescribeInstances")
    /\ AllBefore(s, "DescribeInstances", "ssh.Dial")
    /\ PositionsOf(s, "RunInstances") # {}
           => /\ ImageError(s.env) = "nil"
              /\ s.reqs[1] = DescribeImagesReq
              /\ s.ami = LocateImage(s.env.catalog, s.env.imode).ret
              /\ \A j \in PositionsOf(s, "RunInstances") : s.reqs[j].ImageId = s.ami
    /\ PositionsOf(s, "DescribeInstances") # {}
           => /\ PositionsOf(s, "RunInstances") # {}
              /\ s.env.rmode = "ok"
              /\ Len(RunInstances(s.env.rmode).Instances) = 1
    /\ PositionsOf(s, "ssh.Dial") # {}
           => /\ s.polls >= 1
              /\ ShowsRunning(s.seen[s.polls])
              /\ s.seen[s.polls].Reservations[1].Instances[1].PublicIpAddress # Nil
    /\ \A k \in 1..(s.polls - 1) : ~ShowsRunning(s.seen[k])
    /\ s.instance.Created = TRUE
           => /\ PositionsOf(s, "ssh.Dial") # {}
              /\ s.pc = "done"

\* A step stays in a wait, moves to the next step, or ends the run; a run ends
\* without error only from the SSH wait.
StepOrder ==
    /\ inst.pc # "done"
    /\ \/ inst'.pc = inst.pc /\ inst.pc \in {"waitForInstanceStart", "waitForSSH"}
       \/ StepRank(inst'.pc) = StepRank(inst.pc) + 1
       \/ inst'.pc = "done"
    /\ (inst'.pc = "done" /\ inst'.err = "nil") => inst.pc = "waitForSSH"

\* C30: in every run of CreateInstance the steps come in order: run-instances
\* is sent only after the image was resolved, describe-instances only after
\* run-instances answered with exactly one instance, the first SSH dial only
\* after a poll showed the instance running with a public address, and a step
\* is neither skipped nor taken again once left.
C30_StepsInOrder == []StepsInOrder(inst) /\ [][StepOrder]_vars

\* A run that went through every step, waiting in both waits.
C30_Witness ==
    /\ inst.pc = "done"
    /\ inst.err = "nil"
    /\ inst.instance.Created = TRUE
    /\ Cardinality(PositionsOf(inst, "DescribeInstances")) >= 2
    /\ Cardinality(PositionsOf(inst, "ssh.Dial")) >= 2

(***************************************************************************)
(* Properties of Delete.                                                    *)
(***************************************************************************)
DeletingNames == {"DeleteSecurityGroupRule", "DeleteNetworkACLRule"}

\* The Create function whose rule objects a Delete function takes.
CreateOf(name) ==
    IF name = "DeleteSecurityGroupRule" THEN "CreateSecurityGroupRule"
    ELSE "CreateNetworkACLRule"

\* The step is a successful Delete of the rule object that the successful
\* Create right before it returned.
DeletesTheCreated ==
    /\ call'.name \in DeletingNames
    /\ call'.err = "nil"
    /\ call.name = CreateOf(call'.name)
    /\ call.err = "nil"
    /\ call'.in = call.out

\* C27: under serialized calls, a successful Create followed by a successful
\* Delete of the rule object it returned leaves the security group and the
\* network ACL as they were before the Create: a rule the Create added is
\* removed again, and a rule it found pre-existing stays in place.
C27_CreateThenDeleteRestores ==
    [][DeletesTheCreated =>
          /\ [sg |-> sg', acl |-> acl'] = call.before
          /\ call.out.PreExisting = TRUE
                 => /\ call'.reqs = <<>>
                    /\ ReqsTo(call, MutationAPIs) = <<>>
                    /\ Backend = call.before
          /\ call.out.PreExisting = FALSE
                 => /\ Backend # call.before
                    /\ Len(call'.reqs) = 1]_vars

\* A Delete that removed the rule the Create before it had added to a group or
\* an ACL that held other rules.
C27_Witness ==
    /\ call.name \in DeletingNames
    /\ call.err = "nil"
    /\ call.in.Created = TRUE
    /\ call.in.PreExisting = FALSE
    /\ Len(call.reqs) = 1
    /\ Backend # call.before
    /\ Backend # [sg |-> EmptyGroup, acl |-> <<>>]

\* The ACL without the entry of a rule number and direction.
WithoutSlot(a, num, egress) ==
    SelectSeq(a, LAMBDA w : ~(w.RuleNumber = num /\ w.Egress = egress))

\* C28: the delete-entry request of DeleteNetworkACLRule carries the ACL ID,
\* the direction and the rule number of the rule object and nothing else (no
\* CIDR, no ports); accepted, it removes the entry that holds that number and
\* direction, whatever its CIDR and ports, and no other entry.
C28_DeleteEntryKeyedByNumber ==
    (call.name = "DeleteNetworkACLRule" /\ call.reqs # <<>>) =>
        /\ call.reqs = <<[api |-> "DeleteNetworkAclEntry", Egress |-> call.in.Egress,
                          NetworkAclId |-> call.in.NetworkAclID,
                          RuleNumber |-> call.in.RuleNumber]>>
        /\ call.err = "nil"
               => /\ acl = WithoutSlot(call.before.acl, call.in.RuleNumber, call.in.Egress)
                  /\ Len(acl) = Len(call.before.acl) - 1

\* An accepted delete that removed an entry whose CIDR is not the rule's and
\* which has no ports.
C28_Witness ==
    /\ call.name = "DeleteNetworkACLRule"
    /\ call.err = "nil"
    /\ Len(call.reqs) = 1
    /\ \E i \in 1..Len(call.before.acl) :
           /\ call.before.acl[i].RuleNumber = call.in.RuleNumber
           /\ call.before.acl[i].Egress = call.in.Egress
           /\ call.before.acl[i].CidrBlock # call.in.CidrBlock
           /\ call.before.acl[i].PortRange = Nil

\* The Delete call at hand, made with the rule's Created flag the other way.
DeleteWithCreatedFlipped ==
    LET rule == [call.in EXCEPT !.Created = ~@]
        mode == call.modes[1]
    IN IF call.name = "DeleteSecurityGroupRule"
       THEN LET d == DeleteSecurityGroupRule(call.before.sg, rule, mode)
            IN [reqs |-> d.reqs, err |-> d.err,
                after |-> [sg |-> d.sg, acl |-> call.before.acl]]
       ELSE LET d == DeleteNetworkACLRule(call.before.acl, rule, mode)
            IN [reqs |-> d.reqs, err |-> d.err,
                after |-> [sg |-> call.before.sg, acl |-> d.acl]]

\* C29: Delete does not look at Created: for a rule with PreExisting=false,
\* DeleteSecurityGroupRule and DeleteNetworkACLRule send exactly one revoke or
\* delete-entry request, the same one with the same outcome whether Created is
\* true or false; so a second Delete of the same rule object, or of the object
\* the first Delete returned, sends the request again.
C29_DeleteIgnoresCreated ==
    (call.name \in DeletingNames /\ call.in.PreExisting = FALSE) =>
        /\ Len(call.reqs) = 1
        /\ call.reqs[1].api \in RevokeAPIs \cup DeleteAPIs
        /\ call.reqs = DeleteWithCreatedFlipped.reqs
        /\ call.err = DeleteWithCreatedFlipped.err
        /\ Backend = DeleteWithCreatedFlipped.after

\* A Delete of a rule object that is not marked created, which the backend
\* accepted and which removed a rule.
C29_Witness ==
    /\ call.name \in DeletingNames
    /\ call.in.PreExisting = FALSE
    /\ call.in.Created = FALSE
    /\ Len(call.reqs) = 1
    /\ call.err = "nil"
    /\ Backend # call.before

(***************************************************************************)
(* The Instance a run of CreateInstance returns.                            *)
(***************************************************************************)
\* The run has ended with an error that CreateInstance returns.
ReturnedError(s) == s.pc = "done" /\ s.err \notin {"nil", "panic", "exit"}

\* C31: when run-instances succeeded and a later step of CreateInstance fails
\* (a poll error, the start timeout, a missing public address, the SSH
\* timeout), the Instance returned with the error has the InstanceID of the
\* instance that was launched.
C31_FailedRunKeepsInstanceID ==
    (ReturnedError(inst) /\ inst.instanceID # "")
        => inst.instance.InstanceID = inst.instanceID

\* C32: the Instance a successful CreateInstance returns has, as ImageID, the
\* ID of the image that was resolved and sent in the run-instances request.
C32_ImageIDIsTheOneLaunched ==
    (inst.pc = "done" /\ inst.err = "nil") =>
        /\ inst.instance.ImageID = inst.ami
        /\ \A j \in PositionsOf(inst, "RunInstances") :
               inst.reqs[j].ImageId = inst.instance.ImageID

FindPreExistingNames ==
    {"FindPreExistingSecurityGroupRule", "FindPreExistingNetworkACLRule"}

\* C34: whatever the security group or the network ACL holds, entries without
\* ports included, FindPreExistingSecurityGroupRule and
\* FindPreExistingNetworkACLRule, given the one resource by the describe call,
\* return a result or an error and do not panic.
C34_FindPreExistingNeverPanics ==
    (call.name \in FindPreExistingNames /\ call.modes[1] # "many")
        => call.err # "panic"

\* C36: with the clock advancing at every poll and dial, and every call of the
\* run returning, a run of CreateInstance ends: with the instance ready, or
\* with an error.
C36_CreateInstanceTerminates == <>(inst.pc = "done")

\* A run whose two waits both went round, the SSH wait until its time was up.
C36_Witness ==
    /\ inst.pc = "done"
    /\ inst.err = "sshtimeout"
    /\ inst.polls >= 2
    /\ inst.dials >= 2

(***************************************************************************)
(* Properties of the rule a Create reports.                                 *)
(***************************************************************************)
\* The group holds, in the list of the direction asked for, a TCP permission
\* with exactly the ports asked for whose ranges include the CIDR asked for.
SGHasTCPRule(g, args) ==
    LET rules == IF args.egress THEN g.IpPermissionsEgress ELSE g.IpPermissions
    IN \E i \in 1..Len(rules) :
          /\ rules[i].IpProtocol = "tcp"
          /\ rules[i].FromPort = Ptr(args.start)
          /\ rules[i].ToPort = Ptr(args.end)
          /\ InRanges(rules[i].IpRanges, args.cidr)

\* The ACL holds a TCP allow entry with the CIDR, ports and direction asked for.
ACLHasTCPAllowEntry(a, args) ==
    \E i \in 1..Len(a) :
        /\ a[i].Protocol = "TCP"
        /\ a[i].RuleAction = "allow"
        /\ a[i].CidrBlock = args.cidr
        /\ a[i].PortRange = Ptr(PortRange(args.start, args.end))
        /\ a[i].Egress = args.egress

\* C33: when CreateSecurityGroupRule or CreateNetworkACLRule returns a nil
\* error and a rule with Created=true, the group or the ACL holds a TCP allow
\* rule for the CIDR, ports and direction asked for; a rule of another
\* protocol or a deny entry with the same CIDR, ports and direction does not
\* count as the rule pre-existing.
C33_CreatedMeansTCPAllowRule ==
    (call.name \in CreateNames /\ call.err = "nil" /\ call.out.Created = TRUE) =>
        IF call.name = "CreateSecurityGroupRule"
        THEN SGHasTCPRule(sg, call.in)
        ELSE ACLHasTCPAllowEntry(acl, call.in)

(***************************************************************************)
(* Properties of concurrent CreateSecurityGroupRule calls.                  *)
(***************************************************************************)
\* Both callers have fetched the group, neither found the rule, and neither
\* had sent its authorize before the second of these fetches.
BothSawNoRule(r) ==
    /\ \A p \in Callers : \E i \in LogPositions(r, "FindPreExisting") : r.log[i][1] = p
    /\ \A i \in LogPositions(r, "FindPreExisting"), j \in LogPositions(r, "Authorize") :
           i < j
    /\ \A p \in Callers :
           \/ r.procs[p].pc = "Authorize"
           \/ \E j \in LogPositions(r, "Authorize") : r.log[j][1] = p

Authorized(s) == ReqsTo(s, AuthorizeAPIs)

\* C35: CreateSecurityGroupRule is not transactional: two concurrent calls
\* with the same arguments can both fetch the group before either authorizes;
\* whenever they do and the group did not hold the rule, both go on to the
\* authorize (each run that has ended has sent one, for the same rule) and
\* neither returns PreExisting=true.
C35_ConcurrentCreatesBothAuthorize ==
    (race # NoRace /\ BothSawNoRule(race)) =>
        \A p, q \in Callers :
            /\ race.procs[p].pc \in {"Authorize", "done"}
            /\ race.procs[p].rule.PreExisting = FALSE
            /\ race.procs[p].pc = "done" => Len(Authorized(race.procs[p])) = 1
            /\ (race.procs[p].pc = "done" /\ race.procs[q].pc = "done")
                   => Authorized(race.procs[p]) = Authorized(race.procs[q])

\* Both calls have returned; both fetched before either authorized, both sent
\* the authorize and neither reports the rule as pre-existing.
C35_Witness ==
    /\ race # NoRace
    /\ BothSawNoRule(race)
    /\ race.procs[1].args = race.procs[2].args
    /\ \A p \in Callers :
           /\ race.procs[p].pc = "done"
           /\ Len(Authorized(race.procs[p])) = 1
           /\ race.procs[p].rule.PreExisting = FALSE

(***************************************************************************)
(* Properties of the rule objects a caller keeps.                           *)
(***************************************************************************)
\* The group holds the rule a SecurityGroupRule object describes.
GroupHoldsRule(g, rule) ==
    SGHasRule(g, SGArgs(rule.GroupID, rule.CidrBlock, rule.StartPort, rule.EndPort,
                        rule.Egress))

\* The ACL holds, under the object's rule number and direction, the entry a
\* NetworkACLRule object describes.
ACLHoldsRule(a, rule) ==
    \E i \in 1..Len(a) :
        /\ a[i].RuleNumber = rule.RuleNumber
        /\ a[i].Egress = rule.Egress
        /\ a[i].CidrBlock = rule.CidrBlock
        /\ a[i].PortRange = Ptr(PortRange(rule.StartPort, rule.EndPort))

\* C37: after any serialized Create and Delete calls on a security group or a
\* network ACL, every rule object with Created=true that a Create returned
\* and that was not passed to Delete describes a rule the backend holds; when
\* a second Create found the rule of a first Create pre-existing and the first
\* object is deleted, the second object is not left with Created=true.
C37_KeptObjectsAreLive ==
    \A rule \in held :
        rule.Created = TRUE =>
            IF "GroupID" \in DOMAIN rule THEN GroupHoldsRule(sg, rule)
            ELSE ACLHoldsRule(acl, rule)

====
